---- MODULE Spec2Model ----
(***************************************************************************)
(* Marching tetrahedra extractor with streaming vertex welding.           *)
(*                                                                         *)
(* The host side (Marching::makeTables, Marching::shipOut,                 *)
(* Marching::generate) is translated from the C++ source.  The OpenCL     *)
(* kernels (kernels/marching.cl) and the header marching.h are not part   *)
(* of the available sources; their behaviour is taken from the design     *)
(* document and from the way the host code drives them.                   *)
(***************************************************************************)
EXTENDS Integers, Sequences, FiniteSets, Bags, TLC

(***************************************************************************)
(* Bounds of the model.                                                    *)
(***************************************************************************)
\* Largest depth (number of slices) of a generate call on a 2 x 2 grid.
MaxDepth == 3
\* Scaled-down number of bits per key axis (the program uses a 64 bit key).
KeyAxisBits == 4

\* log2 of the largest dimension of an engine (MAX_DIMENSION_LOG2), scaled
\* down with KeyAxisBits.
MaxDimensionLog2 == 3

\* Largest depth of a generate call whose commands and events are followed
\* on the device.
MaxQueueDepth == 4

\* Largest number of unwelded vertices handed to shipOut on its own.
MaxUnwelded == 3

\* Number of processes running a WorkerGather, and the most items one of
\* them is handed.
MaxSenders == 2

MaxItems == 2

\* Width in bits of FastPLY's size_type in the model.
SizeTypeBits == 3

\* Largest number of vertices in a PLY file.
MaxVertexCount == 3

\* Largest number of ranks in the communicator.
MaxRanks == 3

\* Largest numbers of bucket threads, of device threads and of passes of run2.
MaxBucketThreads == 2

MaxDeviceThreads == 2

MaxPasses == 1

\* Largest number of buckets Bucket::bucket makes on the main thread.
MaxHostBuckets == 1

\* Largest number of buckets Bucket::bucket makes from one HostWorkItem.
MaxDeviceBuckets == 1

\* SimpleFileSet: the largest number of files, the largest number of splats
\* in a file, the largest number of splats that fit in a buffer, and the
\* largest number of calls of MySplatStream::reset after the constructor's.
MaxFiles == 2
MaxFileSize == 2
MaxBufferSplats == 1
MaxResets == 1

\* SimpleFileSet::scanIdShift, scaled down (40 in the source).
scanIdShift == 2

\* StxxlMesher: the largest number of calls of add, of chunks, of distinct
\* vertex keys, of vertices and of triangles of a mesh, and the width of a
\* vertex index in bits (32 in the source).  The bounds keep a chunk below
\* 2^IndexBits vertices.
MaxAdds == 2
MaxChunks == 2
MaxKeys == 2
MaxMeshVertices == 4
MaxMeshTriangles == 1
IndexBits == 5

(***************************************************************************)
(* Generic helpers.                                                        *)
(***************************************************************************)
Pow2(n) == 2 ^ n

Bit(i, v) == (i \div Pow2(v)) % 2

Xor(a, b) == (a + b) % 2

Min(S) == CHOOSE x \in S : \A y \in S : x <= y

RECURSIVE SetToSortedSeq(_)
SetToSortedSeq(S) ==
    IF S = {} THEN <<>>
    ELSE <<Min(S)>> \o SetToSortedSeq(S \ {Min(S)})

RECURSIVE SumSeq(_)
SumSeq(s) == IF s = <<>> THEN 0 ELSE Head(s) + SumSeq(Tail(s))

Range(s) == {s[n] : n \in 1..Len(s)}

\* A buffer given by a formula, evaluated once into an explicit array.
Buffer(f) == f @@ <<>>

(***************************************************************************)
(* Case tables (Marching::makeTables).                                     *)
(***************************************************************************)
edgeIndices ==
    << <<0, 1>>, <<0, 2>>, <<0, 3>>, <<1, 3>>, <<2, 3>>, <<0, 4>>, <<0, 5>>,
       <<1, 5>>, <<4, 5>>, <<0, 6>>, <<2, 6>>, <<4, 6>>, <<0, 7>>, <<1, 7>>,
       <<2, 7>>, <<3, 7>>, <<4, 7>>, <<5, 7>>, <<6, 7>> >>

tetrahedronIndices ==
    << <<0, 7, 1, 3>>, <<0, 7, 3, 2>>, <<0, 7, 2, 6>>,
       <<0, 7, 6, 4>>, <<0, 7, 4, 5>>, <<0, 7, 5, 1>> >>

NUM_EDGES == Len(edgeIndices)

NUM_TETRAHEDRA == Len(tetrahedronIndices)

NUM_CUBES == Pow2(8)

\* Result of findEdgeByVertexIds when no edge matches (assert(false)).
NoEdge == 0 - 1

\* Edge e (0-based) as the pair of its cube vertices.
Edge(e) == edgeIndices[e + 1]

\* A lookup that takes its arguments in the order given.
findEdgeUnswapped(v0, v1) ==
    LET hits == {i \in 0..(NUM_EDGES - 1) : Edge(i)[1] = v0 /\ Edge(i)[2] = v1}
    IN  IF hits = {} THEN NoEdge ELSE Min(hits)

findEdgeByVertexIds(v0, v1) ==
    LET a == IF v0 > v1 THEN v1 ELSE v0
        b == IF v0 > v1 THEN v0 ELSE v1
        hits == {i \in 0..(NUM_EDGES - 1) : Edge(i)[1] = a /\ Edge(i)[2] = b}
    IN  IF hits = {} THEN NoEdge ELSE Min(hits)

\* A parity that counts the inversions of neighbours only.
permutationParityAdjacent(s) ==
    Cardinality({n \in 1..(Len(s) - 1) : s[n] > s[n + 1]}) % 2

\* Parity of the number of inversions of a sequence of distinct numbers.
permutationParity(s) ==
    Cardinality({p \in (1..Len(s)) \X (1..Len(s)) :
                    p[1] < p[2] /\ s[p[1]] > s[p[2]]}) % 2

\* The permutations of S in the order std::sort followed by repeated
\* std::next_permutation visits them (lexicographic).
RECURSIVE LexPerms(_)
RECURSIVE LexPermsFrom(_, _)
LexPermsFrom(S, firsts) ==
    IF firsts = <<>> THEN <<>>
    ELSE LET a == Head(firsts)
             rest == LexPerms(S \ {a})
         IN  [n \in 1..Len(rest) |-> <<a>> \o rest[n]]
                 \o LexPermsFrom(S, Tail(firsts))

LexPerms(S) ==
    IF S = {} THEN << <<>> >> ELSE LexPermsFrom(S, SetToSortedSeq(S))

\* Number of vertices of a tetrahedron that are outside in cube case i.
TetOutside(i, tet) ==
    Bit(i, tet[1]) + Bit(i, tet[2]) + Bit(i, tet[3]) + Bit(i, tet[4])

\* The outside flags of the vertices in the order p, as the bit mask 'mask'.
TetMask(i, flip, p) ==
    Xor(Bit(i, p[1]), flip) + 2 * Xor(Bit(i, p[2]), flip)
        + 4 * Xor(Bit(i, p[3]), flip) + 8 * Xor(Bit(i, p[4]), flip)

\* Triangles whose quad has its second triangle wound the other way.
EmitTrianglesQuadReversed(t, m) ==
    IF m = 0 THEN <<>>
    ELSE IF m = 1
    THEN << findEdgeByVertexIds(t[1], t[2]),
            findEdgeByVertexIds(t[1], t[4]),
            findEdgeByVertexIds(t[1], t[3]) >>
    ELSE << findEdgeByVertexIds(t[1], t[3]),
            findEdgeByVertexIds(t[2], t[3]),
            findEdgeByVertexIds(t[2], t[4]),
            findEdgeByVertexIds(t[2], t[4]),
            findEdgeByVertexIds(t[1], t[3]),
            findEdgeByVertexIds(t[1], t[4]) >>

\* The arguments of the calls of findEdgeByVertexIds for the canonical
\* configuration with mask m, in the order of the calls.
EmitPairs(t, m) ==
    IF m = 0 THEN <<>>
    ELSE IF m = 1
    THEN << <<t[1], t[2]>>, <<t[1], t[4]>>, <<t[1], t[3]>> >>
    ELSE << <<t[1], t[3]>>, <<t[2], t[3]>>, <<t[2], t[4]>>,
            <<t[2], t[4]>>, <<t[1], t[4]>>, <<t[1], t[3]>> >>

\* The triangles pushed for the canonical configuration with mask m.
EmitTriangles(t, m) ==
    LET calls == EmitPairs(t, m)
    IN  [n \in 1..Len(calls) |->
            findEdgeByVertexIds(calls[n][1], calls[n][2])]

\* A search that knows the configurations with at most one vertex outside
\* only.
TetSearchOneOutside(i, flip, baseParity, perms) ==
    LET stops == {n \in 1..Len(perms) :
                     /\ permutationParity(perms[n]) = baseParity
                     /\ TetMask(i, flip, perms[n]) \in {0, 1}}
    IN  IF stops = {} THEN <<>>
        ELSE EmitTriangles(perms[Min(stops)],
                           TetMask(i, flip, perms[Min(stops)]))

\* The do-while loop over the permutations: it stops at the first rotation
\* whose mask is one of the canonical configurations.
TetSearch(i, flip, baseParity, perms) ==
    LET stops == {n \in 1..Len(perms) :
                     /\ permutationParity(perms[n]) = baseParity
                     /\ TetMask(i, flip, perms[n]) \in {0, 1, 3}}
    IN  IF stops = {} THEN <<>>
        ELSE EmitTriangles(perms[Min(stops)],
                           TetMask(i, flip, perms[Min(stops)]))

\* A flip of the flags that leaves the parity alone.
TetFlagsFlipped(i, tet, flip) ==
    TetSearch(i, flip, permutationParity(tet), LexPerms(Range(tet)))

\* flip is 1 if more than two vertices are outside: the flags are inverted
\* and the parity is flipped.
TetFlipped(i, tet, flip) ==
    TetSearch(i, flip, Xor(permutationParity(tet), flip), LexPerms(Range(tet)))

\* Triangles (as edge numbers) contributed by tetrahedron j (1-based) for
\* cube case i.
TetTriangles(i, j) ==
    TetFlipped(i, tetrahedronIndices[j],
               IF TetOutside(i, tetrahedronIndices[j]) > 2 THEN 1 ELSE 0)

RECURSIVE CaseTrianglesFrom(_, _)
CaseTrianglesFrom(i, j) ==
    IF j > NUM_TETRAHEDRA THEN <<>>
    ELSE TetTriangles(i, j) \o CaseTrianglesFrom(i, j + 1)

\* The triangles of the last tetrahedron alone (a vector declared inside
\* the loop over the tetrahedra).
CaseTrianglesLast(i) == TetTriangles(i, NUM_TETRAHEDRA)

\* The vector 'triangles' of makeTables at the end of the tetrahedron loop.
CaseTriangles(i) == CaseTrianglesFrom(i, 1)

\* An edge selection that takes every edge for an edge in use.
CaseVertexEdgesAll(tris) == SetToSortedSeq(0..(NUM_EDGES - 1))

RECURSIVE FirstUseFrom(_, _)
\* The distinct elements of a sequence in the order of their first
\* appearance, leaving out those already seen.
FirstUseFrom(tris, seen) ==
    IF tris = <<>> THEN <<>>
    ELSE IF Head(tris) \in seen THEN FirstUseFrom(Tail(tris), seen)
    ELSE <<Head(tris)>> \o FirstUseFrom(Tail(tris), seen \cup {Head(tris)})

\* The edges in use in the order the triangle list first names them.
CaseVertexEdgesFirstUse(tris) == FirstUseFrom(tris, {})

\* The edges in use for a case, in the order they are given compact indices.
CaseVertexEdges(tris) ==
    SetToSortedSeq({j \in 0..(NUM_EDGES - 1) : j \in Range(tris)})

\* edgeCompact[e] for the edges in use.
edgeCompact(edges, e) == (CHOOSE n \in 1..Len(edges) : edges[n] = e) - 1

\* A key-table row taken from the first endpoint of the edge alone.
KeyDeltaFirst(e) ==
    [axis \in 1..3 |-> 2 * Bit(Edge(e)[1], axis - 1)]

\* Key-table row of edge e: per axis the sum of the endpoint bits.
KeyDelta(e) ==
    [axis \in 1..3 |-> Bit(Edge(e)[1], axis - 1) + Bit(Edge(e)[2], axis - 1)]

\* The rows appended to hVertexTable, hKeyTable and hIndexTable for a case
\* with the given triangles and edges in use.
TableRows(tris, edges) ==
    [vertices |-> edges,
     keys |-> [n \in 1..Len(edges) |-> KeyDelta(edges[n])],
     indices |-> [n \in 1..Len(tris) |-> edgeCompact(edges, tris[n])]]

CaseRowsOf(tris) == TableRows(tris, CaseVertexEdges(tris))

\* Per case: the rows of the vertex, key and index tables.
CaseRows ==
    Buffer([i \in 0..(NUM_CUBES - 1) |-> CaseRowsOf(CaseTriangles(i))])

\* A count of triangles where the table holds the number of indices.
CountOfTriangles(rows) == <<Len(rows.vertices), Len(rows.indices) \div 3>>

CountOf(rows) == <<Len(rows.vertices), Len(rows.indices)>>

\* hCountTable: (number of vertices, number of indices) per case.
hCountTable ==
    Buffer([i \in 0..(NUM_CUBES - 1) |-> CountOf(CaseRows[i])])

\* The largest value of component c of the count table.
MaxCount(c) ==
    CHOOSE m \in 0..(3 * NUM_EDGES) :
        /\ \E i \in 0..(NUM_CUBES - 1) : hCountTable[i][c] = m
        /\ \A i \in 0..(NUM_CUBES - 1) : hCountTable[i][c] <= m

\* Per-cell maxima over all cases.
MAX_CELL_VERTICES == MaxCount(1)

MAX_CELL_INDICES == MaxCount(2)

(***************************************************************************)
(* Vertex keys.                                                            *)
(***************************************************************************)
\* Width of a key in bits (the program: 64 bits for three axes of 21 bits).
KeyBits == 3 * KeyAxisBits + 1

KeyModulus == Pow2(KeyBits)

\* CL_ULONG_MAX at the width of the model.
KeyMax == KeyModulus - 1

\* cl_ulong(v) << n
ShiftLeft(v, n) == (v * Pow2(n)) % KeyModulus

RECURSIVE BitOrFrom(_, _, _)
BitOrFrom(a, b, n) ==
    IF n = 0 THEN 0
    ELSE (IF a % 2 = 1 \/ b % 2 = 1 THEN 1 ELSE 0)
             + 2 * BitOrFrom(a \div 2, b \div 2, n - 1)

\* a | b on keys
BitOr(a, b) == BitOrFrom(a, b, KeyBits)

\* The external threshold shifted as if the z component began at bit 2B + 2.
MinExternalKeyHigh(zMax) == ShiftLeft(zMax, 2 * KeyAxisBits + 2)

\* The external threshold with zMax taken as a half-cell coordinate.
MinExternalKeyHalf(zMax) == ShiftLeft(zMax, 2 * KeyAxisBits)

\* minExternalKey of shipOut.
MinExternalKey(zMax) == ShiftLeft(zMax, 2 * KeyAxisBits + 1)

\* A key offset with keyOffset taken in half cells.
KeyOffsetLHalf(keyOffset) ==
    BitOr(BitOr(ShiftLeft(keyOffset[3], 2 * KeyAxisBits),
                ShiftLeft(keyOffset[2], KeyAxisBits)),
          ShiftLeft(keyOffset[1], 0))

\* keyOffsetL of shipOut.
KeyOffsetL(keyOffset) ==
    BitOr(BitOr(ShiftLeft(keyOffset[3], 2 * KeyAxisBits + 1),
                ShiftLeft(keyOffset[2], KeyAxisBits + 1)),
          ShiftLeft(keyOffset[1], 1))

\* Key of a vertex from its coordinates in units of half a cell.  The host
\* places a coordinate given in whole cells at bit 1 of an axis field
\* (MinExternalKey, KeyOffsetL), so a half-cell coordinate starts at bit 0 of
\* the field and the fields of x, y and z start at bits 0, B and 2B.
computeKey(coords) ==
    BitOr(BitOr(ShiftLeft(coords[3], 2 * KeyAxisBits),
                ShiftLeft(coords[2], KeyAxisBits)),
          ShiftLeft(coords[1], 0))

\* The half-cell z coordinate stored in a key.
KeyZ(key) == key \div Pow2(2 * KeyAxisBits)

(***************************************************************************)
(* Slices and kernels working on one layer of cells.                       *)
(***************************************************************************)
\* Sample positions of a slice of the given size.
Points(w, h) == (0..(w - 1)) \X (0..(h - 1))

\* A slice is given by the set of its samples that are outside (the sign of
\* the field is all the extractor's topology depends on).  Slices of four
\* samples are explored exhaustively, larger ones with at most one sample on
\* the other side of the surface than the rest.
Slices(w, h) ==
    {s \in SUBSET Points(w, h) :
        \/ w * h <= 4
        \/ Cardinality(s) <= 1
        \/ Cardinality(s) >= w * h - 1}

\* The slices explored for slice zz of a call: beyond the third slice, the
\* one with every sample inside.
SlicesAt(w, h, zz) == {s \in Slices(w, h) : zz <= 2 \/ s = {}}

\* Position of cube vertex v of the cell with origin c.
Corner(c, v) == <<c[1] + Bit(v, 0), c[2] + Bit(v, 1), c[3] + Bit(v, 2)>>

\* Cube case of cell (x, y) between sliceA (low z) and sliceB (high z).
CubeCase(sliceA, sliceB, x, y) ==
    SumSeq([n \in 1..8 |->
        LET v == n - 1
            pt == <<x + Bit(v, 0), y + Bit(v, 1)>>
            o == IF Bit(v, 2) = 0 THEN pt \in sliceA ELSE pt \in sliceB
        IN  IF o THEN Pow2(v) ELSE 0])

\* scanUint over n + 1 elements: exclusive prefix sums, the total at n.
scanUint(flags, n) ==
    Buffer([i \in 0..n |-> Cardinality({j \in 0..(i - 1) : flags[j] = 1})])

\* countOccupied, scan and compact: the occupied cells of a layer in the
\* order of their linear cell index, each with its coordinates and case.
generateCells(sliceA, sliceB, width, height) ==
    LET levelCells == (width - 1) * (height - 1)
        cell(g) == LET x == g % (width - 1)
                       y == g \div (width - 1)
                   IN  [x |-> x, y |-> y,
                        case |-> CubeCase(sliceA, sliceB, x, y)]
        occupied == Buffer([g \in 0..(levelCells - 1) |->
                        IF hCountTable[cell(g).case][1] > 0 THEN 1 ELSE 0])
        scan == scanUint(occupied, levelCells)
    IN  [n \in 1..scan[levelCells] |->
            cell(CHOOSE g \in 0..(levelCells - 1) :
                    occupied[g] = 1 /\ scan[g] = n - 1)]

RECURSIVE ScanPairs(_, _)
\* Exclusive scan of a sequence of pairs, with the total appended.
ScanPairs(s, acc) ==
    IF s = <<>> THEN <<acc>>
    ELSE <<acc>> \o ScanPairs(Tail(s), <<acc[1] + Head(s)[1],
                                         acc[2] + Head(s)[2]>>)

\* countElements and scan: viCount after the scan (compacted + 1 entries).
countElements(cells) ==
    ScanPairs([n \in 1..Len(cells) |-> hCountTable[cells[n].case]], <<0, 0>>)

\* generateElements, seen from the buffers.  The work item of compacted cell
\* n writes its vertices and keys at offsets[1] + viCount[n][1] onwards and
\* its indices at offsets[2] + viCount[n][2] onwards.

\* The compacted cell (1-based) whose component c range holds position rel
\* of the layer.
CellAt(viCount, c, rel) ==
    CHOOSE n \in 1..(Len(viCount) - 1) :
        viCount[n][c] <= rel /\ rel < viCount[n + 1][c]

\* Half-cell coordinates of the vertex on edge e of the cell at origin.
VertexCoords(origin, delta) ==
    <<2 * origin[1] + delta[1], 2 * origin[2] + delta[2],
      2 * origin[3] + delta[3]>>

\* The vertex written for slot k (1-based) of a cell: the ends of the edge it
\* is interpolated on, and its position in the unwelded buffer.
CellVertex(origin, e, at) ==
    [p |-> Corner(origin, Edge(e)[1]), q |-> Corner(origin, Edge(e)[2]),
     orig |-> at]

LayerKey(c, cellZ, k) ==
    computeKey(VertexCoords(<<c.x, c.y, cellZ>>, CaseRows[c.case].keys[k]))

LayerVertex(c, cellZ, k, at) ==
    CellVertex(<<c.x, c.y, cellZ>>, CaseRows[c.case].vertices[k], at)

\* The unwelded key buffer after generateElements.
WriteKeys(buf, cells, viCount, cellZ, offsets, total) ==
    [i \in DOMAIN buf |->
        IF offsets[1] <= i /\ i < offsets[1] + total
        THEN LayerKey(cells[CellAt(viCount, 1, i - offsets[1])], cellZ,
                 i - offsets[1]
                   - viCount[CellAt(viCount, 1, i - offsets[1])][1] + 1)
        ELSE buf[i]]

\* The unwelded vertex buffer after generateElements.
WriteVertices(buf, cells, viCount, cellZ, offsets, total) ==
    [i \in DOMAIN buf |->
        IF offsets[1] <= i /\ i < offsets[1] + total
        THEN LayerVertex(cells[CellAt(viCount, 1, i - offsets[1])], cellZ,
                 i - offsets[1]
                   - viCount[CellAt(viCount, 1, i - offsets[1])][1] + 1, i)
        ELSE buf[i]]

\* An index that leaves out the position of the cell's first vertex.
LayerIndexCompact(c, vOff, j) == CaseRows[c.case].indices[j]

\* The index written at position rel of the layer: the cell's first vertex
\* position plus the compact index from the table.
LayerIndex(c, vOff, j) == vOff + CaseRows[c.case].indices[j]

\* The index buffer after generateElements.
WriteIndices(buf, cells, viCount, offsets, total) ==
    [i \in DOMAIN buf |->
        IF offsets[2] <= i /\ i < offsets[2] + total
        THEN LayerIndex(cells[CellAt(viCount, 2, i - offsets[2])],
                 offsets[1] + viCount[CellAt(viCount, 2, i - offsets[2])][1],
                 i - offsets[2]
                   - viCount[CellAt(viCount, 2, i - offsets[2])][2] + 1)
        ELSE buf[i]]

(***************************************************************************)
(* Ship-out: sort, weld, partition, reindex (Marching::shipOut).           *)
(***************************************************************************)
\* The first n elements left in the order they were generated in.
GeneratedOrder(keys, n) == Buffer([p \in 0..(n - 1) |-> p])

\* The stable sort of the first n keys: position p of the result holds the
\* element that was at SortPerm(keys, n)[p].
SortPerm(keys, n) ==
    LET rank == Buffer([i \in 0..(n - 1) |->
                    Cardinality({j \in 0..(n - 1) :
                        \/ keys[j] < keys[i]
                        \/ keys[j] = keys[i] /\ j < i})])
    IN  Buffer([p \in 0..(n - 1) |-> CHOOSE i \in 0..(n - 1) : rank[i] = p])

\* sortVertices.enqueue: sorts the first n keys, carrying the vertices.
sortVertices(keys, vertices, n) ==
    LET perm == SortPerm(keys, n)
    IN  [keys |-> Buffer([i \in DOMAIN keys |->
                      IF i < n THEN keys[perm[i]] ELSE keys[i]]),
         vertices |-> Buffer([i \in DOMAIN vertices |->
                      IF i < n THEN vertices[perm[i]] ELSE vertices[i]])]

\* countUniqueVertices: flags the first element of each run of equal keys.
countUniqueVertices(keys, n) ==
    Buffer([i \in 0..(n - 1) |->
               IF i = 0 \/ keys[i] # keys[i - 1] THEN 1 ELSE 0])

\* compactVertices: scan[i + 1] - 1 is the welded index of sorted element i.
\* The boundary between internal and external vertices is found by comparing
\* each key with its successor; the successor of the last key is the
\* sentinel.  firstExternal keeps its old value if no boundary is seen.
compactVertices(keys, vertices, scan, n, minExternalKey, keyOffsetL, oldFirst) ==
    LET welded(i) == scan[i + 1] - 1
        starts == {i \in 0..(n - 1) : scan[i + 1] # scan[i]}
        slot(w) == CHOOSE i \in starts : welded(i) = w
        numSlots == Cardinality(starts)
        bounds == {i \in 0..(n - 1) :
                      keys[i] < minExternalKey /\ keys[i + 1] >= minExternalKey}
    IN  [weldedVertices |->
             [w \in 0..(numSlots - 1) |->
                 [p |-> vertices[slot(w)].p, q |-> vertices[slot(w)].q]],
         weldedVertexKeys |->
             [w \in 0..(numSlots - 1) |->
                 (keys[slot(w)] + keyOffsetL) % KeyModulus],
         indexRemap |->
             Buffer([o \in {vertices[i].orig : i \in 0..(n - 1)} |->
                 welded(CHOOSE i \in 0..(n - 1) : vertices[i].orig = o)]),
         firstExternal |->
             IF n > 0 /\ keys[0] >= minExternalKey THEN 0
             ELSE IF bounds # {} THEN welded(Min(bounds)) + 1
             ELSE oldFirst]

\* The indices left as generateElements wrote them.
GeneratedIndices(indices, indexRemap, n) == indices

\* reindex: indices[j] = indexRemap[indices[j]] for the first n indices.
reindex(indices, indexRemap, n) ==
    Buffer([j \in DOMAIN indices |->
        IF j < n /\ indices[j] \in DOMAIN indexRemap
        THEN indexRemap[indices[j]] ELSE indices[j]])

\* The key buffer with no sentinel written.
NoSentinel(uKeys, n) == uKeys

\* The sentinel key written after the n real vertex keys.
WriteSentinel(uKeys, n) == [uKeys EXCEPT ![n] = KeyMax]

\* The buffers after shipOut and the mesh handed to the output functor.
\* The fields of 'mesh' after numTriangles record the call for the properties.
shipOut(uKeys, uVertices, idx, oldFirst, keyOffset, sizes, zMax, layers) ==
    LET withSentinel == WriteSentinel(uKeys, sizes[1])
        sorted == sortVertices(withSentinel, uVertices, sizes[1])
        unique == countUniqueVertices(sorted.keys, sizes[1])
        scan == scanUint(unique, sizes[1])
        numWelded == scan[sizes[1]]
        minExternalKey == MinExternalKey(zMax)
        keyOffsetL == KeyOffsetL(keyOffset)
        cv == compactVertices(sorted.keys, sorted.vertices, scan, sizes[1],
                              minExternalKey, keyOffsetL, oldFirst)
        newIdx == reindex(idx, cv.indexRemap, sizes[2])
    IN  [unweldedVertexKeys |-> sorted.keys,
         unweldedVertices |-> sorted.vertices,
         indices |-> newIdx,
         firstExternal |-> cv.firstExternal,
         mesh |-> [vertices |-> cv.weldedVertices,
                   vertexKeys |-> cv.weldedVertexKeys,
                   triangles |-> [j \in 0..(sizes[2] - 1) |-> newIdx[j]],
                   numVertices |-> numWelded,
                   numInternalVertices |-> cv.firstExternal,
                   numTriangles |-> sizes[2] \div 3,
                   sizes |-> sizes,
                   zMax |-> zMax,
                   minExternalKey |-> minExternalKey,
                   keyOffset |-> keyOffset,
                   layers |-> layers,
                   vertexUnique |-> unique,
                   sortedKeys |-> [i \in 0..(sizes[1] - 1) |-> sorted.keys[i]],
                   unsortedKeys |-> [i \in 0..(sizes[1] - 1) |-> uKeys[i]],
                   unsortedVertices |->
                       [i \in 0..(sizes[1] - 1) |-> uVertices[i]],
                   unweldedIndices |-> [j \in 0..(sizes[2] - 1) |-> idx[j]]]]

(***************************************************************************)
(* State.                                                                  *)
(***************************************************************************)
VARIABLES
    maxWidth, maxHeight,        \* constructor arguments
    vertexSpace, indexSpace,    \* capacities computed by the constructor
    unweldedVertices,           \* device buffer, vertexSpace entries
    unweldedVertexKeys,         \* device buffer, vertexSpace + 1 entries
    indices,                    \* device buffer, indexSpace entries
    firstExternal,              \* device buffer, one entry
    size, keyOffset,            \* arguments of generate
    images,                     \* contents of *images[0] and *images[1]
    z,                          \* loop variable of generate
    offsets, top,               \* locals of generate
    cells,                      \* compacted cells of the current layer
    counts,                     \* result of countElements for the layer
    shipOuts,                   \* local counter of generate
    nonempty,                   \* samples of marching.slice.nonempty
    inputCalls,                 \* z arguments of the input functor calls
    sliceLog,                   \* slices the input functor produced
    outputs,                    \* meshes handed to the output functor
    accumulated,                \* layers generated and not yet shipped
    assertOk,                   \* no assert of generate has failed
    pc,                         \* position of the host in generate
    thrown,                     \* exception the host has thrown, or "none"
    enqueued,                   \* kernels enqueued by generate, in order
    compactedLog,               \* values generateCells returned, per layer
    tablesMade,                 \* makeTables has filled the case tables
    allocated,                  \* images and buffers the constructor made
    usage,                      \* result of Marching::resourceUsage
    usageThrown,                \* exception resourceUsage has thrown, or "none"
    tableCase,                  \* loop variable i of makeTables
    hTables,                    \* host-side tables makeTables is filling
    hStartTable,                \* hStartTable of makeTables
    pending,                    \* commands and events not yet complete
    wait,                       \* local 'wait' of generate (event ids)
    nextId,                     \* number of commands enqueued so far
    workItems,                  \* per sender: the items its queue hands it
    sender,                     \* per sender: position of its WorkerGather
    channel,                    \* per sender: messages sent and not received
    receiver,                   \* locals of ReceiverGather::operator()
    outGroup,                   \* items pushed to the receiver's group
    vertexCount,                \* FastPLY::Reader: vertices in the file
    readArgs,                   \* readVertices: its arguments first and count
    readI,                      \* readVertices: loop variable i
    readBase,                   \* readVertices: vertex that 'base' points at
    readOut,                    \* readVertices: elements of 'out' written
    vertexReads,                \* readVertices: vertices read, in order
    readPc,                     \* readVertices: position, or the exception
    comm,                       \* computeBlobs: size and root of the communicator
    rankPc,                     \* computeBlobs: position of each rank
    rankI,                      \* computeBlobs: loop variable i of each rank
    blobFile,                   \* computeBlobs: local blobFile of each rank
    blobFiles,                  \* FastBlobSet::blobFiles of each rank
    nSplats,                    \* FastBlobSet::nSplats of each rank
    collective,                 \* contributions, messages and arrivals in flight
    threads,                    \* run2: numBucketThreads, numDeviceThreads, numPasses
    pass,                       \* run2: loop variable of the passes
    mainPc,                     \* run2: position of the main thread
    mainCount,                  \* run2: buckets made, or loop variable i
    workQueueCoarse,            \* run2: queue of HostWorkItems (0 is null)
    workQueueFine,              \* run2: queue of DeviceWorkItems (<<>> is null)
    block,                      \* DeviceBlock threads: position, item, buckets made
    worker,                     \* DeviceWorker threads: position and item
    finePushed,                 \* DeviceWorkItems pushed in this pass
    fineProcessed,              \* bag of the DeviceWorkItems processed in this pass
    sentinels,                  \* null items each thread has popped in this pass
    runAssertOk,                \* no assert of run2 has failed
    files,                      \* SimpleFileSet: size() of each file
    maxSplats,                  \* ReaderThread: splats that fit in a buffer
    inQueue,                    \* ReaderThread: queue of requests
    outQueue,                   \* ReaderThread: queue of items (<<>> is null)
    pool,                       \* ReaderThread: queue of free items
    req,                        \* ReaderThread::operator(): local req
    readerThread,               \* ReaderThread::operator(): position and locals
    streamPc,                   \* MySplatStream: position of the consumer
    resetArgs,                  \* MySplatStream::reset: first and last
    drained,                    \* ReaderThread::drain: local item
    buffer,                     \* MySplatStream::buffer (<<>> is null)
    bufferCur,                  \* MySplatStream::bufferCur
    isEmpty,                    \* MySplatStream::isEmpty
    resets,                     \* calls of reset the user has made
    pushedIds,                  \* splat ids pushed for the current request
    progress,                   \* requests made and completion markers pushed
    clumps,                     \* StxxlMesher::clumps, a union-find forest
    clumpIdMap,                 \* StxxlMesher::clumpIdMap: vertex key to clump id
    chunks,                     \* StxxlMesher::chunks
    added,                      \* calls of StxxlMesher::add made
    mesherPc,                   \* StxxlMesher: adding, or written
    written,                    \* write: per chunk, externalRemap and the triangles
    remapOk                     \* no assert of write has failed

vars == <<maxWidth, maxHeight, vertexSpace, indexSpace, unweldedVertices,
          unweldedVertexKeys, indices, firstExternal, size, keyOffset, images,
          z, offsets, top, cells, counts, shipOuts, nonempty, inputCalls, sliceLog,
          outputs, accumulated, assertOk, pc, thrown, enqueued, compactedLog,
          tablesMade, allocated, usage, usageThrown, tableCase, hTables, hStartTable, pending, wait,
          nextId, workItems, sender, channel, receiver, outGroup,
          vertexCount, readArgs, readI, readBase, readOut, vertexReads, readPc,
          comm, rankPc, rankI, blobFile, blobFiles, nSplats, collective,
          threads, pass, mainPc, mainCount, workQueueCoarse, workQueueFine,
          block, worker, finePushed, fineProcessed, sentinels, runAssertOk,
          files, maxSplats, inQueue, outQueue, pool, req, readerThread,
          streamPc, resetArgs, drained, buffer, bufferCur, isEmpty, resets,
          pushedIds, progress,
          clumps, clumpIdMap, chunks, added, mesherPc, written, remapOk>>

\* The state of the gather protocol (worker_group_mpi.h).
gather == <<workItems, sender, channel, receiver, outGroup>>

\* The state of FastPLY::Reader::readVertices (splat_tree_cl.h).
ply == <<vertexCount, readArgs, readI, readBase, readOut, vertexReads, readPc>>

\* The state of FastBlobSetMPI::computeBlobs on every rank (part_001).
blobs == <<comm, rankPc, rankI, blobFile, blobFiles, nSplats, collective>>

\* The state of run2 and its threads (mlsgpu.cpp).
run == <<threads, pass, mainPc, mainCount, workQueueCoarse, workQueueFine,
         block, worker, finePushed, fineProcessed, sentinels, runAssertOk>>

\* The state of SimpleFileSet's reader thread and its MySplatStream
\* (splat_tree_cl.h).
stream == <<files, maxSplats, inQueue, outQueue, pool, req, readerThread,
            streamPc, resetArgs, drained, buffer, bufferCur, isEmpty, resets,
            pushedIds, progress>>

\* The state of StxxlMesher (splat_tree_cl.h).
mesher == <<clumps, clumpIdMap, chunks, added, mesherPc, written, remapOk>>

\* The state of the programs other than Marching and the gather.
elsewhere == <<ply, blobs, run, stream, mesher>>

engine == <<maxWidth, maxHeight, vertexSpace, indexSpace>>

buffers == <<unweldedVertices, unweldedVertexKeys, indices, firstExternal>>

\* What the constructor leaves behind besides the engine and its buffers,
\* and the locals of makeTables (gone when it has returned).
others == <<tablesMade, allocated, usage, usageThrown, tableCase, hTables, hStartTable, pending, wait,
           nextId, gather, elsewhere>>

(***************************************************************************)
(* Inputs explored.                                                        *)
(***************************************************************************)
\* (maxWidth, maxHeight) of the engines constructed.
Engines == {<<2, 2>>, <<3, 2>>, <<2, 3>>}

\* Sizes passed to generate on an engine.
Sizes(mw, mh) ==
    {<<2, 2, d>> : d \in 1..(IF mw * mh = 4 THEN MaxDepth ELSE 2)}
        \cup {<<mw, mh, 2>>}

\* Sizes at and beyond the limits of the argument checks of generate.
EdgeSizes(mw, mh) ==
    {<<1, 2, 1>>, <<1, 2, 2>>, <<2, 1, 2>>, <<0, 2, 2>>, <<2, 0, 2>>,
     <<mw + 1, 2, 2>>, <<2, mh + 1, 2>>, <<2, 2, 0>>}

\* Positions of blocks in the global grid passed as keyOffset.
KeyOffsets == {<<1, 2, 3>>, <<1, 2, 4>>}

\* Content of a buffer entry that has never been written.
NoVertex == [p |-> <<0, 0, 0>>, q |-> <<0, 0, 0>>, orig |-> 0]

(***************************************************************************)
(* Marching::Marching                                                      *)
(***************************************************************************)
sliceCells(mw, mh) == (mw - 1) * (mh - 1)

\* A vertex buffer one vertex per cell short of the worst case.
VertexSpaceShort(mw, mh) == sliceCells(mw, mh) * (MAX_CELL_VERTICES - 1)

VertexSpace(mw, mh) == sliceCells(mw, mh) * MAX_CELL_VERTICES

IndexSpace(mw, mh) == sliceCells(mw, mh) * MAX_CELL_INDICES

\* Largest dimension of an engine.
MAX_DIMENSION == Pow2(MaxDimensionLog2)

\* A dimension check that only bounds the dimension from above.
AtMostMaxDimension(d) == d <= MAX_DIMENSION

\* The check the constructor makes on maxWidth and on maxHeight.
ValidDimension(d) == 2 <= d /\ d <= MAX_DIMENSION

\* sizeof of the OpenCL host types.
SizeOf ==
    [cl_uint |-> 4, cl_uint2 |-> 8, cl_ulong |-> 8, cl_float |-> 4,
     cl_float4 |-> 16]

Image2D(w, h, bytesPerPixel) ==
    [kind |-> "image", width |-> w, height |-> h, bytes |-> w * h * bytesPerPixel]

DeviceBuffer(bytes) == [kind |-> "buffer", width |-> 0, height |-> 0, bytes |-> bytes]

\* The images and buffers the constructor creates, in the order of creation:
\* backingImages[0..1], cells, occupied, viCount, vertexUnique, indexRemap,
\* unweldedVertices, unweldedVertexKeys, weldedVertices, weldedVertexKeys,
\* indices, firstExternal, tmpVertexKeys, tmpVertices.
Allocations(mw, mh) ==
    LET cellCount == sliceCells(mw, mh)
        vSpace == VertexSpace(mw, mh)
        iSpace == IndexSpace(mw, mh)
    IN  << Image2D(mw, mh, SizeOf.cl_float),
           Image2D(mw, mh, SizeOf.cl_float),
           DeviceBuffer(cellCount * SizeOf.cl_uint2),
           DeviceBuffer((cellCount + 1) * SizeOf.cl_uint),
           DeviceBuffer((cellCount + 1) * SizeOf.cl_uint2),
           DeviceBuffer((vSpace + 1) * SizeOf.cl_uint),
           DeviceBuffer(vSpace * SizeOf.cl_uint),
           DeviceBuffer(vSpace * SizeOf.cl_float4),
           DeviceBuffer((vSpace + 1) * SizeOf.cl_ulong),
           DeviceBuffer(vSpace * 3 * SizeOf.cl_float),
           DeviceBuffer(vSpace * SizeOf.cl_ulong),
           DeviceBuffer(iSpace * SizeOf.cl_uint),
           DeviceBuffer(SizeOf.cl_uint),
           DeviceBuffer(vSpace * SizeOf.cl_ulong),
           DeviceBuffer(vSpace * SizeOf.cl_float4) >>

\* No result of resourceUsage yet.
NoUsage ==
    [calls |-> <<>>, maxMemory |-> 0, totalMemory |-> 0, imageWidth |-> 0,
     imageHeight |-> 0]

\* The members of an engine after its constructor has returned.  The device
\* buffers are allocated without content.  shipOut reads the entries below
\* sizes and the sentinel, all written before, so the content given to them
\* here is never observed.
Constructed(mw, mh) ==
    /\ maxWidth = mw
    /\ maxHeight = mh
    /\ tablesMade = TRUE
    /\ allocated = Allocations(mw, mh)
    /\ vertexSpace = VertexSpace(mw, mh)
    /\ indexSpace = IndexSpace(mw, mh)
    /\ unweldedVertices = [i \in 0..(vertexSpace - 1) |-> NoVertex]
    /\ unweldedVertexKeys = [i \in 0..vertexSpace |-> 0]
    /\ indices = [i \in 0..(indexSpace - 1) |-> 0]
    /\ firstExternal = 0

\* No gather is running.
NoGather ==
    /\ workItems = <<>>
    /\ sender = <<>>
    /\ channel = <<>>
    /\ receiver = [pc |-> "none", rem |-> 0, source |-> 0, workSize |-> 0]
    /\ outGroup = <<>>

\* No call of readVertices has been made.
NoRead ==
    /\ vertexCount = 0
    /\ readArgs = <<0, 0>>
    /\ readI = 0
    /\ readBase = 0
    /\ readOut = 0
    /\ vertexReads = <<>>
    /\ readPc = "none"

\* No rank is in computeBlobs.
NoBlobs ==
    /\ comm = [size |-> 0, root |-> 0]
    /\ rankPc = <<>>
    /\ rankI = <<>>
    /\ blobFile = <<>>
    /\ blobFiles = <<>>
    /\ nSplats = <<>>
    /\ collective = [reduce |-> <<>>, bcast |-> <<>>, barrier |-> <<>>]

\* run2 has not been called.
NoRun ==
    /\ threads = [bucket |-> 0, device |-> 0, passes |-> 0]
    /\ pass = 0
    /\ mainPc = "none"
    /\ mainCount = 0
    /\ workQueueCoarse = <<>>
    /\ workQueueFine = <<>>
    /\ block = <<>>
    /\ worker = <<>>
    /\ finePushed = {}
    /\ fineProcessed = EmptyBag
    /\ sentinels = <<>>
    /\ runAssertOk = TRUE

\* No MySplatStream has been constructed.
NoStream ==
    /\ files = <<>>
    /\ maxSplats = 0
    /\ inQueue = <<>>
    /\ outQueue = <<>>
    /\ pool = <<>>
    /\ req = <<0, 0>>
    /\ readerThread = [pc |-> "none", first |-> 0, last |-> 0, item |-> <<>>,
                       handleId |-> 0 - 1]
    /\ streamPc = "none"
    /\ resetArgs = <<0, 0>>
    /\ drained = <<>>
    /\ buffer = <<>>
    /\ bufferCur = 0
    /\ isEmpty = TRUE
    /\ resets = 0
    /\ pushedIds = <<>>
    /\ progress = [requests |-> 0, markers |-> 0]

\* No StxxlMesher has been constructed.
NoMesher ==
    /\ clumps = <<>>
    /\ clumpIdMap = <<>>
    /\ chunks = <<>>
    /\ added = 0
    /\ mesherPc = "none"
    /\ written = <<>>
    /\ remapOk = TRUE

\* The programs other than Marching and the gather are not running.
NothingElse == NoRead /\ NoBlobs /\ NoRun /\ NoStream /\ NoMesher

\* The locals of generate and the records of its calls, before any call.
NotStarted ==
    /\ size = <<0, 0, 0>>
    /\ keyOffset = <<0, 0, 0>>
    /\ images = <<{}, {}>>
    /\ z = 0
    /\ offsets = <<0, 0>>
    /\ top = <<0, 0, 0>>
    /\ cells = <<>>
    /\ counts = <<0, 0>>
    /\ shipOuts = 0
    /\ nonempty = <<>>
    /\ inputCalls = <<>>
    /\ sliceLog = <<>>
    /\ outputs = <<>>
    /\ accumulated = <<>>
    /\ assertOk = TRUE
    /\ enqueued = <<>>
    /\ compactedLog = <<>>
    /\ thrown = "none"
    /\ usage = NoUsage
    /\ usageThrown = "none"
    /\ tableCase = 0
    /\ hTables = <<>>
    /\ hStartTable = <<>>
    /\ pending = {}
    /\ wait = {}
    /\ nextId = 0

Init ==
    /\ \E e \in Engines : Constructed(e[1], e[2])
    /\ NotStarted
    /\ NoGather
    /\ NothingElse
    /\ pc = "idle"

(***************************************************************************)
(* Marching::generate                                                      *)
(***************************************************************************)
\* Argument checks that ask for at least two samples along x and y.
SizeOkTwoSamples(sz) ==
    /\ 2 <= sz[1] /\ sz[1] <= maxWidth
    /\ 2 <= sz[2] /\ sz[2] <= maxHeight
    /\ 1 <= sz[3]

\* The argument checks of generate.
SizeOk(sz) ==
    /\ 1 <= sz[1] /\ sz[1] <= maxWidth
    /\ 1 <= sz[2] /\ sz[2] <= maxHeight
    /\ 1 <= sz[3]

\* A call of generate whose size fails the argument checks.
RejectGenerate ==
    /\ pc = "idle"
    /\ \E sz \in Sizes(maxWidth, maxHeight) \cup EdgeSizes(maxWidth, maxHeight),
          ko \in KeyOffsets :
         /\ ~SizeOk(sz)
         /\ size' = sz
         /\ keyOffset' = ko
    /\ thrown' = "length_error"
    /\ pc' = "thrown"
    /\ UNCHANGED <<engine, others, compactedLog, buffers, images, z, offsets, top, cells,
                   counts, shipOuts, nonempty, inputCalls, sliceLog, outputs,
                   accumulated, assertOk, enqueued>>

\* Entry of generate up to the loop: argument checks, locals, slice 0.
BeginGenerate ==
    /\ pc = "idle"
    /\ \E sz \in Sizes(maxWidth, maxHeight) \cup EdgeSizes(maxWidth, maxHeight),
          ko \in KeyOffsets :
         /\ SizeOk(sz)
         /\ size' = sz
         /\ keyOffset' = ko
         /\ top' = <<2 * (sz[1] - 1), 2 * (sz[2] - 1), 0>>
         /\ \E slice \in Slices(sz[1], sz[2]) :
              /\ images' = [images EXCEPT ![2] = slice]
              /\ sliceLog' = <<slice>>
    /\ offsets' = <<0, 0>>
    /\ inputCalls' = <<0>>
    /\ shipOuts' = 0
    /\ z' = 1
    /\ pc' = "loop"
    /\ UNCHANGED <<engine, others, compactedLog, buffers, cells, counts, nonempty, outputs,
                   accumulated, assertOk, thrown, enqueued>>

\* An overflow test that sends every layer through a ship-out first.
OverflowAlways(offs, cnt) == offs[1] + cnt[1] >= 0

\* An overflow test that also rejects a layer filling the buffers exactly.
OverflowWhenFull(offs, cnt) ==
    offs[1] + cnt[1] >= vertexSpace \/ offs[2] + cnt[2] >= indexSpace

\* The overflow test of generate.
Overflow(offs, cnt) ==
    offs[1] + cnt[1] > vertexSpace \/ offs[2] + cnt[2] > indexSpace

\* A loop test that lets z reach depth.
MoreLayersInclusive(zz, depth) == zz <= depth

\* The loop test of generate.
MoreLayers(zz, depth) == zz < depth

\* A test that takes every layer for a nonempty one.
OccupiedAlways(compacted) == compacted >= 0

\* The test of generate for a layer with cells to process.
Occupied(compacted) == compacted > 0

\* The kernels generateCells enqueues.
CellKernels == <<"countOccupied", "scanUint", "compact">>

\* The kernels countElements enqueues.
CountKernels == <<"countElements", "scanElements">>

\* The kernels shipOut enqueues.
ShipOutKernels ==
    <<"sortVertices", "countUniqueVertices", "scanUint", "compactVertices",
      "reindex">>

\* A loop that leaves the image pointers as they are.
KeepImages(im) == im

\* std::swap(images[0], images[1]), seen from the contents of *images[0]
\* and *images[1].
SwapImages(im) == <<im[2], im[1]>>

\* A layer without cells ((width - 1) * (height - 1) = 0): generateCells
\* enqueues countOccupied over an empty range, which the OpenCL runtime may
\* refuse (CL_INVALID_GLOBAL_WORK_SIZE, thrown as cl::Error).  A runtime
\* that accepts it goes on as in ProcessLayer.
RefuseEmptyRange ==
    /\ pc = "loop"
    /\ MoreLayers(z, size[3])
    /\ (size[1] - 1) * (size[2] - 1) = 0
    /\ \E slice \in SlicesAt(size[1], size[2], z) :
         /\ images' = [SwapImages(images) EXCEPT ![2] = slice]
         /\ sliceLog' = Append(sliceLog, slice)
    /\ inputCalls' = Append(inputCalls, z)
    /\ thrown' = "cl_error"
    /\ pc' = "thrown"
    /\ UNCHANGED <<engine, others, compactedLog, buffers, size, keyOffset, z, offsets, top,
                   cells, counts, shipOuts, nonempty, outputs, accumulated,
                   assertOk, enqueued>>

\* One iteration up to the overflow test: swap, input, generateCells and,
\* for a nonempty layer, countElements.  An empty layer ends the iteration.
ProcessLayer ==
    /\ pc = "loop"
    /\ MoreLayers(z, size[3])
    /\ \E slice \in SlicesAt(size[1], size[2], z) :
         LET newImages == [SwapImages(images) EXCEPT ![2] = slice]
             newCells == generateCells(newImages[1], newImages[2],
                                       size[1], size[2])
             compacted == Len(newCells)
         IN  /\ images' = newImages
             /\ sliceLog' = Append(sliceLog, slice)
             /\ cells' = newCells
             /\ inputCalls' = Append(inputCalls, z)
             /\ compactedLog' = Append(compactedLog, compacted)
             /\ IF Occupied(compacted)
                THEN /\ counts' = countElements(newCells)[compacted + 1]
                     /\ enqueued' = enqueued \o CellKernels \o CountKernels
                     /\ pc' = "counted"
                     /\ UNCHANGED <<z, nonempty>>
                ELSE /\ nonempty' = Append(nonempty, FALSE)
                     /\ enqueued' = enqueued \o CellKernels
                     /\ z' = z + 1
                     /\ UNCHANGED <<counts, pc>>
    /\ UNCHANGED <<engine, others, buffers, size, keyOffset, offsets, top,
                   shipOuts, outputs, accumulated, assertOk, thrown>>

\* The layers in 'accumulated', as the z values of their loop iterations.
AccumulatedLayers == [n \in 1..Len(accumulated) |-> accumulated[n].z]

\* The branch of generate taken when the layer does not fit: ship out what
\* has been accumulated and restart at offset 0.
MidShipOut ==
    /\ pc = "counted"
    /\ Overflow(offsets, counts)
    /\ LET r == shipOut(unweldedVertexKeys, unweldedVertices, indices,
                        firstExternal, keyOffset, offsets, z - 1,
                        AccumulatedLayers)
       IN  /\ unweldedVertexKeys' = r.unweldedVertexKeys
           /\ unweldedVertices' = r.unweldedVertices
           /\ indices' = r.indices
           /\ firstExternal' = r.firstExternal
           /\ outputs' = Append(outputs, r.mesh)
    /\ shipOuts' = shipOuts + 1
    /\ offsets' = <<0, 0>>
    /\ top' = [top EXCEPT ![3] = 2 * (z - 1)]
    /\ assertOk' = (assertOk /\ counts[1] <= vertexSpace
                             /\ counts[2] <= indexSpace)
    /\ accumulated' = <<>>
    /\ enqueued' = enqueued \o ShipOutKernels
    /\ pc' = "generate"
    /\ UNCHANGED <<engine, others, compactedLog, size, keyOffset, images, z, cells, counts,
                   nonempty, inputCalls, sliceLog, thrown>>

\* A layer number counted from the last ship-out.
LayerZSinceShipOut(zz) == zz - 1 - top[3] \div 2

\* The z argument of generateElements for iteration zz.
LayerZ(zz) == zz - 1

\* An advance that leaves the index offset where it was.
AdvanceVerticesOnly(offs, cnt) == <<offs[1] + cnt[1], offs[2]>>

\* offsets.s0 += counts.s0; offsets.s1 += counts.s1.
AdvanceOffsets(offs, cnt) == <<offs[1] + cnt[1], offs[2] + cnt[2]>>

\* generateElements for the layer and the end of the iteration.
GenerateElements ==
    /\ \/ pc = "counted" /\ ~Overflow(offsets, counts)
       \/ pc = "generate"
    /\ unweldedVertices' = WriteVertices(unweldedVertices, cells,
                               countElements(cells), LayerZ(z), offsets, counts[1])
    /\ unweldedVertexKeys' = WriteKeys(unweldedVertexKeys, cells,
                               countElements(cells), LayerZ(z), offsets, counts[1])
    /\ indices' = WriteIndices(indices, cells, countElements(cells), offsets,
                               counts[2])
    /\ offsets' = AdvanceOffsets(offsets, counts)
    /\ accumulated' = Append(accumulated,
                             [z |-> z, offsets |-> offsets, counts |-> counts])
    /\ nonempty' = Append(nonempty, TRUE)
    /\ z' = z + 1
    /\ enqueued' = Append(enqueued, "generateElements")
    /\ pc' = "loop"
    /\ UNCHANGED <<engine, others, compactedLog, firstExternal, size, keyOffset, images, top,
                   cells, counts, shipOuts, inputCalls, sliceLog, outputs, assertOk,
                   thrown>>

\* The ship-out after the loop.
FinalShipOut ==
    /\ pc = "loop"
    /\ ~MoreLayers(z, size[3])
    /\ offsets[1] > 0
    /\ LET r == shipOut(unweldedVertexKeys, unweldedVertices, indices,
                        firstExternal, keyOffset, offsets, size[3] - 1,
                        AccumulatedLayers)
       IN  /\ unweldedVertexKeys' = r.unweldedVertexKeys
           /\ unweldedVertices' = r.unweldedVertices
           /\ indices' = r.indices
           /\ firstExternal' = r.firstExternal
           /\ outputs' = Append(outputs, r.mesh)
    /\ shipOuts' = shipOuts + 1
    /\ accumulated' = <<>>
    /\ enqueued' = enqueued \o ShipOutKernels
    /\ pc' = "finish"
    /\ UNCHANGED <<engine, others, compactedLog, size, keyOffset, images, z, offsets, top,
                   cells, counts, nonempty, inputCalls, sliceLog, assertOk, thrown>>

\* The end of generate.
Finish ==
    /\ \/ pc = "loop" /\ ~MoreLayers(z, size[3]) /\ offsets[1] = 0
       \/ pc = "finish"
    /\ pc' = "done"
    /\ UNCHANGED <<engine, others, compactedLog, buffers, size, keyOffset, images, z, offsets,
                   top, cells, counts, shipOuts, nonempty, inputCalls, sliceLog, outputs,
                   accumulated, assertOk, thrown, enqueued>>

Next ==
    \/ RejectGenerate
    \/ BeginGenerate
    \/ RefuseEmptyRange
    \/ ProcessLayer
    \/ MidShipOut
    \/ GenerateElements
    \/ FinalShipOut
    \/ Finish

Spec == Init /\ [][Next]_vars

(***************************************************************************)
(* Marching::shipOut on its own, over arbitrary small key buffers.         *)
(***************************************************************************)
\* Keys the unwelded buffer is filled from: two positions on each of three
\* planes.
SampleKeys == {computeKey(<<x, 0, zz>>) : x \in 0..1, zz \in 0..2}

ShipOutInit ==
    /\ maxWidth = 2
    /\ maxHeight = 2
    /\ vertexSpace = VertexSpace(maxWidth, maxHeight)
    /\ indexSpace = IndexSpace(maxWidth, maxHeight)
    /\ \E n \in 1..MaxUnwelded :
         /\ offsets = <<n, 3>>
         /\ \E ks \in [0..(n - 1) -> SampleKeys] :
              unweldedVertexKeys =
                  [i \in 0..vertexSpace |-> IF i < n THEN ks[i] ELSE 0]
         /\ unweldedVertices =
                [i \in 0..(vertexSpace - 1) |->
                    IF i < n
                    THEN [p |-> <<i, 0, 0>>, q |-> <<i, 0, 1>>, orig |-> i]
                    ELSE NoVertex]
         /\ indices = [j \in 0..(indexSpace - 1) |->
                          IF j < 3 THEN (2 * j) % n ELSE 0]
    /\ firstExternal \in 0..1
    /\ size = <<2, 2, 3>>
    /\ keyOffset = <<1, 2, 3>>
    /\ images = <<{}, {}>>
    /\ z \in 1..3
    /\ top = <<2, 2, 0>>
    /\ cells = <<>>
    /\ counts = <<0, 0>>
    /\ shipOuts = 0
    /\ nonempty = <<>>
    /\ inputCalls = <<>>
    /\ sliceLog = <<>>
    /\ outputs = <<>>
    /\ accumulated = <<>>
    /\ assertOk = TRUE
    /\ enqueued = <<>>
    /\ compactedLog = <<>>
    /\ thrown = "none"
    /\ tablesMade = TRUE
    /\ allocated = Allocations(maxWidth, maxHeight)
    /\ usage = NoUsage
    /\ usageThrown = "none"
    /\ tableCase = 0
    /\ hTables = <<>>
    /\ hStartTable = <<>>
    /\ pending = {}
    /\ wait = {}
    /\ nextId = 0
    /\ NoGather
    /\ NothingElse
    /\ pc = "shipOut"

\* One call of shipOut with zMax = z - 1.
ShipOutCall ==
    /\ pc = "shipOut"
    /\ LET r == shipOut(unweldedVertexKeys, unweldedVertices, indices,
                        firstExternal, keyOffset, offsets, z - 1, <<>>)
       IN  /\ unweldedVertexKeys' = r.unweldedVertexKeys
           /\ unweldedVertices' = r.unweldedVertices
           /\ indices' = r.indices
           /\ firstExternal' = r.firstExternal
           /\ outputs' = Append(outputs, r.mesh)
    /\ shipOuts' = shipOuts + 1
    /\ enqueued' = enqueued \o ShipOutKernels
    /\ pc' = "shipped"
    /\ UNCHANGED <<engine, others, compactedLog, size, keyOffset, images, z, offsets, top,
                   cells, counts, nonempty, inputCalls, sliceLog, accumulated, assertOk,
                   thrown>>

ShipOutNext == ShipOutCall

ShipOutSpec == ShipOutInit /\ [][ShipOutNext]_vars

(***************************************************************************)
(* Marching::makeTables, one cube case at a time.                          *)
(***************************************************************************)
\* What one iteration of the loop over the cube cases produces: the
\* triangles of each tetrahedron (edge numbers, three per triangle) and the
\* rows appended to the tables.
CaseEntry(i) ==
    [tets |-> [j \in 1..NUM_TETRAHEDRA |-> TetTriangles(i, j)],
     rows |-> CaseRowsOf(CaseTriangles(i))]

\* A start field of eight bits only.
UShortNarrow(v) == v % Pow2(8)

RECURSIVE SumOver(_, _, _)
\* f[lo] + ... + f[hi]
SumOver(f, lo, hi) ==
    IF lo > hi THEN 0
    ELSE IF lo = hi THEN f[lo]
    ELSE SumOver(f, lo, (lo + hi) \div 2)
             + SumOver(f, (lo + hi) \div 2 + 1, hi)

\* A value stored in a cl_ushort / in a cl_uchar.
UShort(v) == v % Pow2(16)

UChar(v) == v % Pow2(8)

\* hVertexTable.size() and hIndexTable.size() when the given entries have
\* been appended.
hVertexTableSize(entries) ==
    SumOver([n \in 1..Len(entries) |-> Len(entries[n].rows.vertices)],
            1, Len(entries))

hIndexTableSize(entries) ==
    SumOver([n \in 1..Len(entries) |-> Len(entries[n].rows.indices)],
            1, Len(entries))

\* hCountTable[i] as the loop stores it: the growth of the two vectors since
\* hStartTable[i] was taken, in a cl_uchar2.
StoredCount(start, vertexSize, indexSize) ==
    <<UChar(vertexSize - start[1]), UChar(indexSize - start[2])>>

\* The start values moved to where hIndexTable sits after the
\* concatenation.
OffsetStarts(starts, vertexSize) ==
    [n \in 1..Len(starts) |->
        <<starts[n][1], UShort(starts[n][2] + vertexSize)>>]

RECURSIVE Concat(_, _, _)
\* The rows ss[lo], ..., ss[hi] one after the other.
Concat(ss, lo, hi) ==
    IF lo > hi THEN <<>>
    ELSE IF lo = hi THEN ss[lo]
    ELSE Concat(ss, lo, (lo + hi) \div 2)
             \o Concat(ss, (lo + hi) \div 2 + 1, hi)

\* dataTable: hVertexTable followed by hIndexTable.
DataTable(entries) ==
    Concat([n \in 1..Len(entries) |-> entries[n].rows.vertices],
           1, Len(entries))
        \o Concat([n \in 1..Len(entries) |-> entries[n].rows.indices],
                  1, Len(entries))

\* keyTable.
KeyTable(entries) ==
    Concat([n \in 1..Len(entries) |-> entries[n].rows.keys], 1, Len(entries))

\* makeTables is entered from the constructor, after the dimension checks.
TablesInit ==
    /\ maxWidth = 2
    /\ maxHeight = 2
    /\ tablesMade = FALSE
    /\ allocated = <<>>
    /\ vertexSpace = 0
    /\ indexSpace = 0
    /\ unweldedVertices = <<>>
    /\ unweldedVertexKeys = <<>>
    /\ indices = <<>>
    /\ firstExternal = 0
    /\ NotStarted
    /\ NoGather
    /\ NothingElse
    /\ pc = "tables"

\* One iteration of the loop over the cube cases.
MakeTablesCase ==
    /\ pc = "tables"
    /\ tableCase < NUM_CUBES
    /\ hStartTable' = Append(hStartTable,
                          <<UShort(hVertexTableSize(hTables)),
                            UShort(hIndexTableSize(hTables))>>)
    /\ hTables' = Append(hTables, CaseEntry(tableCase))
    /\ tableCase' = tableCase + 1
    /\ UNCHANGED <<engine, buffers, tablesMade, allocated, usage, usageThrown, size,
                   keyOffset, images, z, offsets, top, cells, counts, shipOuts,
                   nonempty, inputCalls, sliceLog, outputs, accumulated, assertOk,
                   enqueued, compactedLog, thrown, pc, pending, wait, nextId,
                   gather, elsewhere>>

\* The tables are complete and are copied to the device.
MakeTablesDone ==
    /\ pc = "tables"
    /\ tableCase = NUM_CUBES
    /\ hStartTable' =
          OffsetStarts(Append(hStartTable,
                           <<UShort(hVertexTableSize(hTables)),
                             UShort(hIndexTableSize(hTables))>>),
                       hVertexTableSize(hTables))
    /\ tablesMade' = TRUE
    /\ pc' = "tabled"
    /\ UNCHANGED <<engine, buffers, allocated, usage, usageThrown, tableCase, hTables,
                   size, keyOffset, images, z, offsets, top, cells, counts,
                   shipOuts, nonempty, inputCalls, sliceLog, outputs, accumulated,
                   assertOk, enqueued, compactedLog, thrown, pending, wait,
                   nextId, gather, elsewhere>>

TablesNext == MakeTablesCase \/ MakeTablesDone

TablesSpec == TablesInit /\ [][TablesNext]_vars

(***************************************************************************)
(* Marching::Marching and Marching::resourceUsage over the dimensions.     *)
(***************************************************************************)
\* Dimensions passed to the constructor, from 0 to beyond the largest.
Dimensions == 0..(MAX_DIMENSION + 1)

\* Before the constructor: nothing exists.
ConstructInit ==
    /\ maxWidth \in Dimensions
    /\ maxHeight \in Dimensions
    /\ tablesMade = FALSE
    /\ allocated = <<>>
    /\ vertexSpace = 0
    /\ indexSpace = 0
    /\ unweldedVertices = <<>>
    /\ unweldedVertexKeys = <<>>
    /\ indices = <<>>
    /\ firstExternal = 0
    /\ NotStarted
    /\ NoGather
    /\ NothingElse
    /\ pc = "new"

\* The constructor: the checks on the dimensions, then makeTables, the
\* images and the buffers.
Construct ==
    /\ pc = "new"
    /\ IF ValidDimension(maxWidth) /\ ValidDimension(maxHeight)
       THEN /\ tablesMade' = TRUE
            /\ allocated' = Allocations(maxWidth, maxHeight)
            /\ vertexSpace' = VertexSpace(maxWidth, maxHeight)
            /\ indexSpace' = IndexSpace(maxWidth, maxHeight)
            /\ unweldedVertices' =
                   [i \in 0..(VertexSpace(maxWidth, maxHeight) - 1) |-> NoVertex]
            /\ unweldedVertexKeys' =
                   [i \in 0..VertexSpace(maxWidth, maxHeight) |-> 0]
            /\ indices' = [i \in 0..(IndexSpace(maxWidth, maxHeight) - 1) |-> 0]
            /\ pc' = "idle"
            /\ UNCHANGED thrown
       ELSE /\ thrown' = "invalid_argument"
            /\ pc' = "thrown"
            /\ UNCHANGED <<tablesMade, allocated, vertexSpace, indexSpace,
                           unweldedVertices, unweldedVertexKeys, indices>>
    /\ UNCHANGED <<maxWidth, maxHeight, firstExternal, size, keyOffset, images,
                   z, offsets, top, cells, counts, shipOuts, nonempty,
                   inputCalls, sliceLog, outputs, accumulated, assertOk, enqueued,
                   compactedLog, usage, usageThrown, tableCase, hTables, hStartTable, pending,
                   wait, nextId, gather, elsewhere>>

\* Width of std::size_t and std::tr1::uint64_t, scaled down with MAX_DIMENSION.
SizeTBits == 16

\* Unsigned arithmetic of that width.
SizeT(v) == v % Pow2(SizeTBits)

\* The product of two values of that width, computed by halves so that no
\* intermediate value leaves the range of the model checker's integers.
SizeTMul(a, b) ==
    LET half == SizeTBits \div 2
        low == b % Pow2(half)
        high == b \div Pow2(half)
    IN  SizeT(a * low + ((a * high) % Pow2(SizeTBits - half)) * Pow2(half))

\* (maxWidth - 1) * (maxHeight - 1) in unsigned arithmetic.
WrappedCells(mw, mh) == SizeTMul(SizeT(mw - 1), SizeT(mh - 1))

getMaxVertices(mw, mh) == SizeTMul(WrappedCells(mw, mh), MAX_CELL_VERTICES)

\* A triangle count that is the index count.
getMaxTrianglesAsIndices(mw, mh) ==
    SizeTMul(WrappedCells(mw, mh), MAX_CELL_INDICES)

getMaxTriangles(mw, mh) ==
    SizeTMul(WrappedCells(mw, mh), MAX_CELL_INDICES \div 3)

\* CLH::ResourceUsage::addBuffer and addImage: the request is recorded in
\* 'calls' and accounted in the totals.
AddTo(u, item) ==
    [calls |-> Append(u.calls, item),
     maxMemory |-> IF item.bytes > u.maxMemory THEN item.bytes ELSE u.maxMemory,
     totalMemory |-> u.totalMemory + item.bytes,
     imageWidth |-> IF item.width > u.imageWidth THEN item.width
                    ELSE u.imageWidth,
     imageHeight |-> IF item.height > u.imageHeight THEN item.height
                     ELSE u.imageHeight]

RECURSIVE AddAll(_, _)
AddAll(u, items) ==
    IF items = <<>> THEN u ELSE AddAll(AddTo(u, Head(items)), Tail(items))

\* Marching::resourceUsage for dimensions that pass its checks, in the
\* unsigned arithmetic of the code.
resourceUsage(mw, mh) ==
    LET cellCount == WrappedCells(mw, mh)
        vSpace == getMaxVertices(mw, mh)
        iSpace == SizeTMul(getMaxTriangles(mw, mh), 3)
    IN  AddAll(NoUsage,
            << Image2D(mw, mh, SizeOf.cl_float),
               Image2D(mw, mh, SizeOf.cl_float),
               DeviceBuffer(SizeTMul(cellCount, SizeOf.cl_uint2)),
               DeviceBuffer(SizeTMul(SizeT(cellCount + 1), SizeOf.cl_uint)),
               DeviceBuffer(SizeTMul(SizeT(cellCount + 1), SizeOf.cl_uint2)),
               DeviceBuffer(SizeTMul(SizeT(vSpace + 1), SizeOf.cl_uint)),
               DeviceBuffer(SizeTMul(vSpace, SizeOf.cl_uint)),
               DeviceBuffer(SizeTMul(vSpace, SizeOf.cl_float4)),
               DeviceBuffer(SizeTMul(SizeT(vSpace + 1), SizeOf.cl_ulong)),
               DeviceBuffer(SizeTMul(SizeTMul(vSpace, 3), SizeOf.cl_float)),
               DeviceBuffer(SizeTMul(vSpace, SizeOf.cl_ulong)),
               DeviceBuffer(SizeTMul(iSpace, SizeOf.cl_uint)),
               DeviceBuffer(SizeOf.cl_uint),
               DeviceBuffer(SizeTMul(vSpace, SizeOf.cl_ulong)),
               DeviceBuffer(SizeTMul(vSpace, SizeOf.cl_float4)) >>)

\* A call of the static function resourceUsage with the dimensions the
\* constructor was called with, whether the constructor accepted them or
\* not: the two checks, then the sizes.
ResourceUsage ==
    /\ pc \in {"idle", "thrown"}
    /\ usage = NoUsage
    /\ usageThrown = "none"
    /\ IF maxWidth <= MAX_DIMENSION /\ maxHeight <= MAX_DIMENSION
       THEN /\ usage' = resourceUsage(maxWidth, maxHeight)
            /\ UNCHANGED usageThrown
       ELSE /\ usageThrown' = "invalid_argument"
            /\ UNCHANGED usage
    /\ UNCHANGED <<engine, buffers, tablesMade, allocated, tableCase,
                   hTables, hStartTable, size, keyOffset, images, z, offsets, top, cells,
                   counts, shipOuts, nonempty, inputCalls, sliceLog, outputs,
                   accumulated, assertOk, enqueued, compactedLog, thrown, pc,
                   pending, wait, nextId, gather, elsewhere>>

ConstructNext == Construct \/ ResourceUsage

ConstructSpec == ConstructInit /\ [][ConstructNext]_vars

(***************************************************************************)
(* Marching::generate and Marching::shipOut as a host thread that enqueues *)
(* commands with event wait lists, and a device that runs them.  What the  *)
(* commands compute is left out: generateCells returns 0 or 1, a nonempty  *)
(* layer counts as one vertex and three indices, and the overflow test may *)
(* go either way once something has been accumulated.                      *)
(***************************************************************************)
\* A command enqueued with the given event wait list.
Command(id, kind, waits) ==
    [id |-> id, kind |-> kind, waits |-> waits, status |-> "queued",
     inQueue |-> TRUE]

\* The event the output functor returns: its work has started; it may or
\* may not be a command of the queue generate was given.
OutputEvent(id, onQueue) ==
    [id |-> id, kind |-> "output", waits |-> {}, status |-> "running",
     inQueue |-> onQueue]

\* The event with this id has completed.
Complete(id) == \A c \in pending : c.id # id

\* queue.finish() returns: every command of the queue has completed.
QueueFinished == \A c \in pending : ~c.inQueue

\* What the host steps below leave alone.
hostFrame ==
    <<engine, buffers, tablesMade, allocated, usage, usageThrown, tableCase, hTables, hStartTable,
      keyOffset, images, top, cells, counts, outputs, accumulated, assertOk,
      thrown, enqueued, gather, elsewhere, sliceLog>>

\* The device starts a command whose wait list has completed.
StartCommand ==
    /\ \E c \in pending :
         /\ c.status = "queued"
         /\ \A w \in c.waits : Complete(w)
         /\ pending' = (pending \ {c}) \cup {[c EXCEPT !.status = "running"]}
    /\ UNCHANGED <<hostFrame, size, z, offsets, shipOuts, nonempty,
                   inputCalls, compactedLog, wait, nextId, pc>>

\* A running command, or the work of the output functor, completes.
CompleteCommand ==
    /\ \E c \in pending :
         /\ c.status = "running"
         /\ pending' = pending \ {c}
    /\ UNCHANGED <<hostFrame, size, z, offsets, shipOuts, nonempty,
                   inputCalls, compactedLog, wait, nextId, pc>>

\* generate up to the loop: input for slice 0, wait[0] = last.
HostBegin ==
    /\ pc = "idle"
    /\ \E d \in 1..MaxQueueDepth : size' = <<2, 2, d>>
    /\ pending' = pending \cup {Command(nextId, "input", {})}
    /\ wait' = {nextId}
    /\ nextId' = nextId + 1
    /\ inputCalls' = <<0>>
    /\ offsets' = <<0, 0>>
    /\ shipOuts' = 0
    /\ z' = 1
    /\ pc' = "hostLoop"
    /\ UNCHANGED <<hostFrame, nonempty, compactedLog>>

\* Top of an iteration: input for slice z, wait[0] = last.
HostInput ==
    /\ pc = "hostLoop"
    /\ MoreLayers(z, size[3])
    /\ pending' = pending \cup {Command(nextId, "input", wait)}
    /\ wait' = {nextId}
    /\ nextId' = nextId + 1
    /\ inputCalls' = Append(inputCalls, z)
    /\ pc' = "hostCells"
    /\ UNCHANGED <<hostFrame, size, z, offsets, shipOuts, nonempty,
                   compactedLog>>

\* generateCells up to queue.finish(): countOccupied, scanUint, the
\* readback of the total and compact.
HostGenerateCells ==
    /\ pc = "hostCells"
    /\ pending' = pending \cup
           {Command(nextId, "countOccupied", wait),
            Command(nextId + 1, "scanUint", {nextId}),
            Command(nextId + 2, "readCompacted", {nextId + 1}),
            Command(nextId + 3, "compact", {nextId + 1})}
    /\ nextId' = nextId + 4
    /\ pc' = "hostCellsFinish"
    /\ UNCHANGED <<hostFrame, size, z, offsets, shipOuts, nonempty,
                   inputCalls, compactedLog, wait>>

\* queue.finish() of generateCells returns, wait.clear(); an empty layer
\* ends the iteration.
HostCellsFinished ==
    /\ pc = "hostCellsFinish"
    /\ QueueFinished
    /\ wait' = {}
    /\ \E compacted \in 0..1 :
         /\ compactedLog' = Append(compactedLog, compacted)
         /\ IF Occupied(compacted)
            THEN /\ pc' = "hostCount"
                 /\ UNCHANGED <<nonempty, z>>
            ELSE /\ nonempty' = Append(nonempty, FALSE)
                 /\ z' = z + 1
                 /\ pc' = "hostLoop"
    /\ UNCHANGED <<hostFrame, size, offsets, shipOuts, inputCalls, pending,
                   nextId>>

\* countElements up to the blocking readback: the kernel waits for the
\* events passed to generate (none here).
HostCountElements ==
    /\ pc = "hostCount"
    /\ pending' = pending \cup
           {Command(nextId, "countElements", {}),
            Command(nextId + 1, "scanElements", {nextId}),
            Command(nextId + 2, "readCounts", {nextId + 1})}
    /\ nextId' = nextId + 3
    /\ pc' = "hostCountRead"
    /\ UNCHANGED <<hostFrame, size, z, offsets, shipOuts, nonempty,
                   inputCalls, compactedLog, wait>>

\* The blocking readback of countElements returns and the overflow test is
\* made.
HostCounted ==
    /\ pc = "hostCountRead"
    /\ \A c \in pending : c.kind # "readCounts"
    /\ \/ offsets[1] > 0 /\ pc' = "hostShipOut"
       \/ pc' = "hostGenerate"
    /\ UNCHANGED <<hostFrame, size, z, offsets, shipOuts, nonempty,
                   inputCalls, compactedLog, pending, wait, nextId>>

\* The kinds of the commands of shipOut that write buffers.
ShipOutCommands ==
    {"writeSentinel", "sortVertices", "countUniqueVertices", "scanUnique",
     "compactVertices", "reindex"}

\* shipOut up to queue.finish(): each command waits for the one before it,
\* the first for the events shipOut is given.
HostShipOut ==
    /\ pc = "hostShipOut"
    /\ pending' = pending \cup
           {Command(nextId, "writeSentinel", wait),
            Command(nextId + 1, "sortVertices", {nextId}),
            Command(nextId + 2, "countUniqueVertices", {nextId + 1}),
            Command(nextId + 3, "scanUnique", {nextId + 2}),
            Command(nextId + 4, "readNumWelded", {nextId + 3}),
            Command(nextId + 5, "compactVertices", {nextId + 3}),
            Command(nextId + 6, "readFirstExternal", {nextId + 5}),
            Command(nextId + 7, "reindex", {nextId + 5})}
    /\ nextId' = nextId + 8
    /\ pc' = "hostShipFinish"
    /\ UNCHANGED <<hostFrame, size, z, offsets, shipOuts, nonempty,
                   inputCalls, compactedLog, wait>>

\* An event list after a ship-out that does not hold the functor's event.
NoWaitForOutput(event) == {}

\* wait.resize(1); wait[0] = last after a ship-out.
WaitForOutput(event) == {event}

\* queue.finish() of shipOut returns and the output functor is called; it
\* returns its event.  In the loop the offsets are reset and generation of
\* the layer follows; after the loop queue.finish() of generate follows.
HostOutput ==
    /\ pc = "hostShipFinish"
    /\ QueueFinished
    /\ \E onQueue \in BOOLEAN :
         pending' = pending \cup {OutputEvent(nextId, onQueue)}
    /\ wait' = WaitForOutput(nextId)
    /\ nextId' = nextId + 1
    /\ shipOuts' = shipOuts + 1
    /\ IF MoreLayers(z, size[3])
       THEN /\ offsets' = <<0, 0>>
            /\ pc' = "hostGenerate"
       ELSE /\ pc' = "hostEnd"
            /\ UNCHANGED offsets
    /\ UNCHANGED <<hostFrame, size, z, nonempty, inputCalls, compactedLog>>

\* generateElements is enqueued, wait[0] = last, and the iteration ends.
HostGenerateElements ==
    /\ pc = "hostGenerate"
    /\ pending' = pending \cup {Command(nextId, "generateElements", wait)}
    /\ wait' = {nextId}
    /\ nextId' = nextId + 1
    /\ offsets' = <<offsets[1] + 1, offsets[2] + 3>>
    /\ nonempty' = Append(nonempty, TRUE)
    /\ z' = z + 1
    /\ pc' = "hostLoop"
    /\ UNCHANGED <<hostFrame, size, shipOuts, inputCalls, compactedLog>>

\* After the loop: a last ship-out if something is accumulated.
HostAfterLoop ==
    /\ pc = "hostLoop"
    /\ ~MoreLayers(z, size[3])
    /\ pc' = IF offsets[1] > 0 THEN "hostShipOut" ELSE "hostEnd"
    /\ UNCHANGED <<hostFrame, size, z, offsets, shipOuts, nonempty,
                   inputCalls, compactedLog, pending, wait, nextId>>

\* queue.finish() at the end of generate returns.
HostEnd ==
    /\ pc = "hostEnd"
    /\ QueueFinished
    /\ pc' = "done"
    /\ UNCHANGED <<hostFrame, size, z, offsets, shipOuts, nonempty,
                   inputCalls, compactedLog, pending, wait, nextId>>

QueueNext ==
    \/ HostBegin
    \/ HostInput
    \/ HostGenerateCells
    \/ HostCellsFinished
    \/ HostCountElements
    \/ HostCounted
    \/ HostShipOut
    \/ HostOutput
    \/ HostGenerateElements
    \/ HostAfterLoop
    \/ HostEnd
    \/ StartCommand
    \/ CompleteCommand

QueueSpec == Init /\ [][QueueNext]_vars

(***************************************************************************)
(* WorkerGather and ReceiverGather (worker_group_mpi.h).  Every sender is  *)
(* a process of its own; a message sent is held by MPI until a receive     *)
(* matches it.  Messages of one sender with one tag are matched in the     *)
(* order they were sent; the HAS_WORK messages and the messages of         *)
(* sendItem have different tags, so each sender has two such orders.       *)
(***************************************************************************)
\* Ranks of the processes that run a WorkerGather.
Senders == 1..MaxSenders

\* Values sizeItem returns for the items explored.
ItemSizes == {0, 1}

\* The items a sender may be handed, each given by its size.
WorkLists == UNION {[1..k -> ItemSizes] : k \in 0..MaxItems}

\* Item n of sender s.
WorkItem(s, n) == [from |-> s, seq |-> n, size |-> workItems[s][n]]

sizeItem(item) == item.size

\* The group of the senders has not started; the receiver is entered with
\* 'senders' the number of WorkerGather workers.
GatherInit ==
    /\ Constructed(2, 2)
    /\ NotStarted
    /\ workItems \in [Senders -> WorkLists]
    /\ sender = [s \in Senders |-> [pc |-> "idle", next |-> 1]]
    /\ channel = [s \in Senders |-> [work |-> <<>>, items |-> <<>>]]
    /\ receiver = [pc |-> "wait", rem |-> MaxSenders, source |-> 0,
                   workSize |-> 0]
    /\ outGroup = <<>>
    /\ NothingElse
    /\ pc = "gather"

\* The state of Marching.
marchingState ==
    <<engine, buffers, tablesMade, allocated, usage, usageThrown, tableCase, hTables, hStartTable,
      pending, wait, nextId, size, keyOffset, images, z, offsets, top, cells,
      counts, shipOuts, nonempty, inputCalls, sliceLog, outputs, accumulated, assertOk,
      pc, thrown, enqueued, compactedLog>>

\* Everything but the state of the gather.
marching == <<marchingState, elsewhere>>

\* WorkerGather::operator(), first half: the size of the item is sent with
\* the tag HAS_WORK.
WorkerGatherAnnounce(s) ==
    /\ sender[s].pc = "idle"
    /\ sender[s].next <= Len(workItems[s])
    /\ channel' = [channel EXCEPT ![s].work =
                      Append(@, sizeItem(WorkItem(s, sender[s].next)))]
    /\ sender' = [sender EXCEPT ![s].pc = "send"]
    /\ UNCHANGED <<marching, workItems, receiver, outGroup>>

\* WorkerGather::operator(), second half: sendItem.
WorkerGatherSend(s) ==
    /\ sender[s].pc = "send"
    /\ channel' = [channel EXCEPT ![s].items =
                      Append(@, WorkItem(s, sender[s].next))]
    /\ sender' = [sender EXCEPT ![s].pc = "idle", ![s].next = @ + 1]
    /\ UNCHANGED <<marching, workItems, receiver, outGroup>>

\* WorkerGather::stop, called when the queue of the sender is drained.
WorkerGatherStop(s) ==
    /\ sender[s].pc = "idle"
    /\ sender[s].next > Len(workItems[s])
    /\ channel' = [channel EXCEPT ![s].work = Append(@, 0)]
    /\ sender' = [sender EXCEPT ![s].pc = "stopped"]
    /\ UNCHANGED <<marching, workItems, receiver, outGroup>>

\* ReceiverGather::operator(): MPI_Recv of a HAS_WORK message from any
\* source, and the test of workSize.
ReceiveWork ==
    /\ receiver.pc = "wait"
    /\ receiver.rem > 0
    /\ \E s \in Senders :
         /\ channel[s].work # <<>>
         /\ channel' = [channel EXCEPT ![s].work = Tail(@)]
         /\ receiver' =
               IF Head(channel[s].work) = 0
               THEN [receiver EXCEPT !.rem = @ - 1, !.source = s,
                                     !.workSize = 0]
               ELSE [receiver EXCEPT !.pc = "recv", !.source = s,
                                     !.workSize = Head(channel[s].work)]
    /\ UNCHANGED <<marching, workItems, sender, outGroup>>

\* ReceiverGather::operator(): outGroup.get, recvItem from the source of
\* the HAS_WORK message, outGroup.push.
ReceiveItem ==
    /\ receiver.pc = "recv"
    /\ channel[receiver.source].items # <<>>
    /\ outGroup' = Append(outGroup,
                       [item |-> Head(channel[receiver.source].items),
                        source |-> receiver.source,
                        workSize |-> receiver.workSize])
    /\ channel' = [channel EXCEPT ![receiver.source].items = Tail(@)]
    /\ receiver' = [receiver EXCEPT !.pc = "wait"]
    /\ UNCHANGED <<marching, workItems, sender>>

\* ReceiverGather::operator() returns when rem has reached 0.
ReceiverReturn ==
    /\ receiver.pc = "wait"
    /\ receiver.rem = 0
    /\ receiver' = [receiver EXCEPT !.pc = "done"]
    /\ UNCHANGED <<marching, workItems, sender, channel, outGroup>>

GatherNext ==
    \/ \E s \in Senders : WorkerGatherAnnounce(s)
    \/ \E s \in Senders : WorkerGatherSend(s)
    \/ \E s \in Senders : WorkerGatherStop(s)
    \/ ReceiveWork
    \/ ReceiveItem
    \/ ReceiverReturn

GatherSpec == GatherInit /\ [][GatherNext]_vars

(***************************************************************************)
(* FastPLY::Reader::readVertices (splat_tree_cl.h).  A vertex is named by  *)
(* its index; 'base' is the index of the vertex it points at.              *)
(***************************************************************************)
\* Unsigned arithmetic of size_type.
SizeType(v) == v % Pow2(SizeTypeBits)

\* The range check of readVertices.
PastEnd(first, count) ==
    first > vertexCount \/ SizeType(first + count) > vertexCount

\* Marching and the gather at rest.
AtRest ==
    /\ Constructed(2, 2)
    /\ NotStarted
    /\ NoGather
    /\ pc = "idle"

\* A reader of a file with up to MaxVertexCount vertices and a call of
\* readVertices with any first and count of size_type.
ReadInit ==
    /\ AtRest
    /\ NoBlobs
    /\ NoRun
    /\ NoStream
    /\ NoMesher
    /\ vertexCount \in 0..MaxVertexCount
    /\ readArgs \in (0..(Pow2(SizeTypeBits) - 1)) \X (0..(Pow2(SizeTypeBits) - 1))
    /\ readI = 0
    /\ readBase = 0
    /\ readOut = 0
    /\ vertexReads = <<>>
    /\ readPc = "call"

\* What readVertices leaves alone.
outsideRead == <<marchingState, gather, blobs, run, stream, mesher, vertexCount,
                 readArgs>>

\* The range check and the initialisation of base and i.
ReadVerticesEnter ==
    /\ readPc = "call"
    /\ IF PastEnd(readArgs[1], readArgs[2])
       THEN /\ readPc' = "out_of_range"
            /\ UNCHANGED <<readI, readBase>>
       ELSE /\ readBase' = readArgs[1]
            /\ readI' = readArgs[2]
            /\ readPc' = "loop"
    /\ UNCHANGED <<outsideRead, readOut, vertexReads>>

\* One iteration of the loop: the seven fields of the vertex at base are
\* copied to *out; i--, base += vertexSize, out++.
ReadVertex ==
    /\ readPc = "loop"
    /\ readI > 0
    /\ vertexReads' = Append(vertexReads, readBase)
    /\ readOut' = readOut + 1
    /\ readBase' = readBase + 1
    /\ readI' = readI - 1
    /\ UNCHANGED <<outsideRead, readPc>>

\* The loop ends and readVertices returns.
ReadVerticesReturn ==
    /\ readPc = "loop"
    /\ readI = 0
    /\ readPc' = "returned"
    /\ UNCHANGED <<outsideRead, readI, readBase, readOut, vertexReads>>

ReadNext == ReadVerticesEnter \/ ReadVertex \/ ReadVerticesReturn

ReadSpec == ReadInit /\ [][ReadNext]_vars

(***************************************************************************)
(* FastBlobSetMPI::computeBlobs (part_001), run collectively by the ranks  *)
(* 0 .. size - 1 of a communicator.  MPI_Allreduce returns on a rank once  *)
(* every rank has contributed, MPI_Bcast returns on the sending rank at    *)
(* once and on the others once the message has been sent, and MPI_Barrier  *)
(* returns once every rank has entered it.  A blob file is named by the    *)
(* rank that wrote it.                                                     *)
(***************************************************************************)
Ranks == 0..(comm.size - 1)

\* What computeBlobsRange can give on a rank: the number of finite splats of
\* its partition and the number of blobs written to its file.
RangeResults == {[nSplats |-> 0, nBlobs |-> 1], [nSplats |-> 1, nBlobs |-> 2]}

\* typename FastBlobSet<Base>::BlobFile blobFile, not yet written.
NoBlobFile == [path |-> 0 - 1, nBlobs |-> 0, owner |-> FALSE]

\* The ranks enter computeBlobs: eraseBlobFiles, nSplats = 0, blobFile.
BlobsInit ==
    /\ AtRest
    /\ NoRead
    /\ NoRun
    /\ NoStream
    /\ NoMesher
    /\ \E n \in 1..MaxRanks, root \in 0..(MaxRanks - 1) :
          /\ root < n
          /\ comm = [size |-> n, root |-> root]
          /\ rankPc = [r \in 0..(n - 1) |-> "range"]
          /\ rankI = [r \in 0..(n - 1) |-> 0]
          /\ blobFile = [r \in 0..(n - 1) |-> NoBlobFile]
          /\ blobFiles = [r \in 0..(n - 1) |-> <<>>]
          /\ nSplats = [r \in 0..(n - 1) |-> 0]
          /\ collective = [reduce |-> [r \in 0..(n - 1) |-> 0 - 1],
                           bcast |-> [i \in 0..(n - 1) |-> NoBlobFile],
                           barrier |-> [i \in 0..(n - 1) |-> {}]]

\* What the steps of computeBlobs leave alone.
outsideBlobs == <<marchingState, gather, ply, run, stream, mesher, comm>>

\* computeBlobsRange on the partition of rank r: the rank writes its blob
\* file, which it owns, and counts its splats.
ComputeBlobsRange(r) ==
    /\ rankPc[r] = "range"
    /\ \E res \in RangeResults :
          /\ blobFile' = [blobFile EXCEPT
                             ![r] = [path |-> r, nBlobs |-> res.nBlobs,
                                     owner |-> TRUE]]
          /\ nSplats' = [nSplats EXCEPT ![r] = res.nSplats]
    /\ rankPc' = [rankPc EXCEPT ![r] = "allreduce"]
    /\ UNCHANGED <<outsideBlobs, rankI, blobFiles, collective>>

\* MPI_Allreduce of nSplats with MPI_SUM: the rank contributes its value.
AllreduceEnter(r) ==
    /\ rankPc[r] = "allreduce"
    /\ collective' = [collective EXCEPT !.reduce[r] = nSplats[r]]
    /\ rankPc' = [rankPc EXCEPT ![r] = "reducing"]
    /\ UNCHANGED <<outsideBlobs, rankI, blobFile, blobFiles, nSplats>>

\* MPI_Allreduce returns with the sum; the loop over the ranks starts.
AllreduceReturn(r) ==
    /\ rankPc[r] = "reducing"
    /\ \A q \in Ranks : collective.reduce[q] >= 0
    /\ nSplats' = [nSplats EXCEPT ![r] = SumOver(collective.reduce, 0,
                                                 comm.size - 1)]
    /\ rankI' = [rankI EXCEPT ![r] = 0]
    /\ rankPc' = [rankPc EXCEPT ![r] = "bcast"]
    /\ UNCHANGED <<outsideBlobs, blobFile, blobFiles, collective>>

\* The two broadcasts of iteration i on the rank i itself: its nBlobs and
\* path are sent; push_back of the entry with owner = (rank == root).
BroadcastSend(r) ==
    /\ rankPc[r] = "bcast"
    /\ rankI[r] = r
    /\ collective' = [collective EXCEPT !.bcast[r] =
                         [path |-> blobFile[r].path,
                          nBlobs |-> blobFile[r].nBlobs, owner |-> FALSE]]
    /\ blobFiles' = [blobFiles EXCEPT ![r] =
                        Append(@, [path |-> blobFile[r].path,
                                   nBlobs |-> blobFile[r].nBlobs,
                                   owner |-> (r = comm.root)])]
    /\ rankPc' = [rankPc EXCEPT ![r] = "barrier"]
    /\ UNCHANGED <<outsideBlobs, rankI, blobFile, nSplats>>

\* The two broadcasts of iteration i on another rank: nBlobs and path of
\* rank i are received; push_back of the entry with owner = (rank == root).
BroadcastReceive(r) ==
    /\ rankPc[r] = "bcast"
    /\ rankI[r] # r
    /\ collective.bcast[rankI[r]] # NoBlobFile
    /\ blobFiles' = [blobFiles EXCEPT ![r] =
                        Append(@, [path |-> collective.bcast[rankI[r]].path,
                                   nBlobs |-> collective.bcast[rankI[r]].nBlobs,
                                   owner |-> (r = comm.root)])]
    /\ rankPc' = [rankPc EXCEPT ![r] = "barrier"]
    /\ UNCHANGED <<outsideBlobs, rankI, blobFile, nSplats, collective>>

\* The rank enters MPI_Barrier.
BarrierEnter(r) ==
    /\ rankPc[r] = "barrier"
    /\ collective' = [collective EXCEPT !.barrier[rankI[r]] = @ \cup {r}]
    /\ rankPc' = [rankPc EXCEPT ![r] = "waiting"]
    /\ UNCHANGED <<outsideBlobs, rankI, blobFile, blobFiles, nSplats>>

\* A barrier that lets a rank go as soon as it has entered.
BarrierOpen(i) == TRUE

\* MPI_Barrier of iteration i lets the ranks go: all of them have entered.
BarrierComplete(i) == collective.barrier[i] = Ranks

\* MPI_Barrier returns; the rank whose file was distributed gives up its
\* ownership; i++ and the loop test.
BarrierReturn(r) ==
    /\ rankPc[r] = "waiting"
    /\ BarrierComplete(rankI[r])
    /\ blobFile' = IF rankI[r] = r
                   THEN [blobFile EXCEPT ![r].owner = FALSE]
                   ELSE blobFile
    /\ rankI' = [rankI EXCEPT ![r] = @ + 1]
    /\ rankPc' = [rankPc EXCEPT ![r] =
                     IF rankI[r] + 1 < comm.size THEN "bcast" ELSE "done"]
    /\ UNCHANGED <<outsideBlobs, blobFiles, nSplats, collective>>

BlobsNext ==
    \/ \E r \in Ranks : ComputeBlobsRange(r)
    \/ \E r \in Ranks : AllreduceEnter(r)
    \/ \E r \in Ranks : AllreduceReturn(r)
    \/ \E r \in Ranks : BroadcastSend(r)
    \/ \E r \in Ranks : BroadcastReceive(r)
    \/ \E r \in Ranks : BarrierEnter(r)
    \/ \E r \in Ranks : BarrierReturn(r)

BlobsSpec == BlobsInit /\ [][BlobsNext]_vars

(***************************************************************************)
(* run2 (mlsgpu.cpp): the main thread, the DeviceBlock threads and the     *)
(* DeviceWorker threads of each pass, and the two work queues.  A          *)
(* WorkQueue is a bounded first-in first-out queue: push waits while the   *)
(* queue holds 'capacity' items and pop waits while it is empty.  A        *)
(* HostWorkItem is named by a number from 1 and a DeviceWorkItem by the    *)
(* pair of its HostWorkItem and its number among the buckets made from it. *)
(***************************************************************************)
\* WorkQueue<...> workQueueCoarse(1) and workQueueFine(2).
CoarseCapacity == 1

FineCapacity == 2

\* boost::shared_ptr<HostWorkItem>() and boost::shared_ptr<DeviceWorkItem>().
NullHostItem == 0

NullDeviceItem == <<>>

BucketThreads == 1..threads.bucket

DeviceThreads == 1..threads.device

\* run2 up to the loop over the passes, for any numbers of threads and passes.
RunInit ==
    /\ AtRest
    /\ NoRead
    /\ NoBlobs
    /\ NoStream
    /\ NoMesher
    /\ threads \in [bucket : 1..MaxBucketThreads, device : 1..MaxDeviceThreads,
                    passes : 1..MaxPasses]
    /\ pass = 0
    /\ mainPc = "pass"
    /\ mainCount = 0
    /\ workQueueCoarse = <<>>
    /\ workQueueFine = <<>>
    /\ block = [b \in BucketThreads |-> [pc |-> "exit", item |-> 0, made |-> 0]]
    /\ worker = [w \in DeviceThreads |-> [pc |-> "exit", item |-> <<>>]]
    /\ finePushed = {}
    /\ fineProcessed = EmptyBag
    /\ sentinels = [bucket |-> [b \in BucketThreads |-> 0],
                    device |-> [w \in DeviceThreads |-> 0]]
    /\ runAssertOk = TRUE

\* What the steps of run2 and its threads leave alone.
outsideRun == <<marchingState, gather, ply, blobs, stream, mesher, threads>>

\* The head of a pass: the threads are created.
StartPass ==
    /\ mainPc = "pass"
    /\ pass < threads.passes
    /\ block' = [b \in BucketThreads |-> [pc |-> "pop", item |-> 0, made |-> 0]]
    /\ worker' = [w \in DeviceThreads |-> [pc |-> "pop", item |-> <<>>]]
    /\ finePushed' = {}
    /\ fineProcessed' = EmptyBag
    /\ sentinels' = [bucket |-> [b \in BucketThreads |-> 0],
                     device |-> [w \in DeviceThreads |-> 0]]
    /\ mainCount' = 0
    /\ mainPc' = "bucket"
    /\ UNCHANGED <<outsideRun, pass, workQueueCoarse, workQueueFine, runAssertOk>>

\* Bucket::bucket on the main thread calls hostBlock for one more bucket,
\* which pushes a HostWorkItem to the coarse queue.
HostBlockPush ==
    /\ mainPc = "bucket"
    /\ mainCount < MaxHostBuckets
    /\ Len(workQueueCoarse) < CoarseCapacity
    /\ workQueueCoarse' = Append(workQueueCoarse, mainCount + 1)
    /\ mainCount' = mainCount + 1
    /\ UNCHANGED <<outsideRun, pass, mainPc, workQueueFine, block, worker,
                   finePushed, fineProcessed, sentinels, runAssertOk>>

\* Bucket::bucket returns on the main thread.
BucketReturn ==
    /\ mainPc = "bucket"
    /\ mainCount' = 0
    /\ mainPc' = "stopBlocks"
    /\ UNCHANGED <<outsideRun, pass, workQueueCoarse, workQueueFine, block,
                   worker, finePushed, fineProcessed, sentinels, runAssertOk>>

\* One iteration of the loop that pushes a null item for each bucket thread.
PushNullHostItem ==
    /\ mainPc = "stopBlocks"
    /\ mainCount < threads.bucket
    /\ Len(workQueueCoarse) < CoarseCapacity
    /\ workQueueCoarse' = Append(workQueueCoarse, NullHostItem)
    /\ mainCount' = mainCount + 1
    /\ UNCHANGED <<outsideRun, pass, mainPc, workQueueFine, block, worker,
                   finePushed, fineProcessed, sentinels, runAssertOk>>

\* A join that does not wait.
JoinedAtOnce(pcs) == TRUE

\* thread_group::join_all: every thread of the group has returned.
Joined(pcs) == \A t \in DOMAIN pcs : pcs[t].pc = "exit"

\* bucketThreads.join_all() returns.
JoinBucketThreads ==
    /\ mainPc = "stopBlocks"
    /\ mainCount = threads.bucket
    /\ Joined(block)
    /\ mainCount' = 0
    /\ mainPc' = "stopWorkers"
    /\ UNCHANGED <<outsideRun, pass, workQueueCoarse, workQueueFine, block,
                   worker, finePushed, fineProcessed, sentinels, runAssertOk>>

\* One iteration of the loop that pushes a null item for each device thread.
PushNullDeviceItem ==
    /\ mainPc = "stopWorkers"
    /\ mainCount < threads.device
    /\ Len(workQueueFine) < FineCapacity
    /\ workQueueFine' = Append(workQueueFine, NullDeviceItem)
    /\ mainCount' = mainCount + 1
    /\ UNCHANGED <<outsideRun, pass, mainPc, workQueueCoarse, block, worker,
                   finePushed, fineProcessed, sentinels, runAssertOk>>

\* workerThreads.join_all() returns; the two asserts on the queue sizes; the
\* pass ends.
JoinWorkerThreads ==
    /\ mainPc = "stopWorkers"
    /\ mainCount = threads.device
    /\ Joined(worker)
    /\ runAssertOk' = (runAssertOk /\ Len(workQueueCoarse) = 0
                                   /\ Len(workQueueFine) = 0)
    /\ pass' = pass + 1
    /\ mainCount' = 0
    /\ mainPc' = "pass"
    /\ UNCHANGED <<outsideRun, workQueueCoarse, workQueueFine, block, worker,
                   finePushed, fineProcessed, sentinels>>

\* The loop over the passes ends.
PassesDone ==
    /\ mainPc = "pass"
    /\ pass = threads.passes
    /\ mainPc' = "done"
    /\ UNCHANGED <<outsideRun, pass, mainCount, workQueueCoarse, workQueueFine,
                   block, worker, finePushed, fineProcessed, sentinels,
                   runAssertOk>>

\* DeviceBlock::operator()(): pop from the coarse queue; a null item ends
\* the thread, another item starts Bucket::bucket on it.
DeviceBlockPop(b) ==
    /\ block[b].pc = "pop"
    /\ workQueueCoarse # <<>>
    /\ workQueueCoarse' = Tail(workQueueCoarse)
    /\ IF Head(workQueueCoarse) = NullHostItem
       THEN /\ block' = [block EXCEPT ![b].pc = "exit"]
            /\ sentinels' = [sentinels EXCEPT !.bucket[b] = @ + 1]
       ELSE /\ block' = [block EXCEPT ![b] = [pc |-> "bucket",
                                              item |-> Head(workQueueCoarse),
                                              made |-> 0]]
            /\ UNCHANGED sentinels
    /\ UNCHANGED <<outsideRun, pass, mainPc, mainCount, workQueueFine, worker,
                   finePushed, fineProcessed, runAssertOk>>

\* Bucket::bucket on a bucket thread calls the DeviceBlock for one more
\* bucket, which pushes a DeviceWorkItem to the fine queue.
DeviceBlockPush(b) ==
    /\ block[b].pc = "bucket"
    /\ block[b].made < MaxDeviceBuckets
    /\ Len(workQueueFine) < FineCapacity
    /\ workQueueFine' = Append(workQueueFine,
                               <<block[b].item, block[b].made + 1>>)
    /\ finePushed' = finePushed \cup {<<block[b].item, block[b].made + 1>>}
    /\ block' = [block EXCEPT ![b].made = @ + 1]
    /\ UNCHANGED <<outsideRun, pass, mainPc, mainCount, workQueueCoarse, worker,
                   fineProcessed, sentinels, runAssertOk>>

\* Bucket::bucket returns on a bucket thread; the thread goes back to pop.
DeviceBlockNext(b) ==
    /\ block[b].pc = "bucket"
    /\ block' = [block EXCEPT ![b] = [pc |-> "pop", item |-> 0, made |-> 0]]
    /\ UNCHANGED <<outsideRun, pass, mainPc, mainCount, workQueueCoarse,
                   workQueueFine, worker, finePushed, fineProcessed, sentinels,
                   runAssertOk>>

\* DeviceWorker::operator()(): pop from the fine queue; a null item ends the
\* thread.
DeviceWorkerPop(w) ==
    /\ worker[w].pc = "pop"
    /\ workQueueFine # <<>>
    /\ workQueueFine' = Tail(workQueueFine)
    /\ IF Head(workQueueFine) = NullDeviceItem
       THEN /\ worker' = [worker EXCEPT ![w].pc = "exit"]
            /\ sentinels' = [sentinels EXCEPT !.device[w] = @ + 1]
       ELSE /\ worker' = [worker EXCEPT ![w] = [pc |-> "generate",
                                                item |-> Head(workQueueFine)]]
            /\ UNCHANGED sentinels
    /\ UNCHANGED <<outsideRun, pass, mainPc, mainCount, workQueueCoarse, block,
                   finePushed, fineProcessed, runAssertOk>>

\* The rest of the loop body of DeviceWorker: the item is processed
\* (marching.generate) and the thread goes back to pop.
DeviceWorkerGenerate(w) ==
    /\ worker[w].pc = "generate"
    /\ fineProcessed' = fineProcessed (+) SetToBag({worker[w].item})
    /\ worker' = [worker EXCEPT ![w] = [pc |-> "pop", item |-> <<>>]]
    /\ UNCHANGED <<outsideRun, pass, mainPc, mainCount, workQueueCoarse,
                   workQueueFine, block, finePushed, sentinels, runAssertOk>>

RunNext ==
    \/ StartPass
    \/ HostBlockPush
    \/ BucketReturn
    \/ PushNullHostItem
    \/ JoinBucketThreads
    \/ PushNullDeviceItem
    \/ JoinWorkerThreads
    \/ PassesDone
    \/ \E b \in BucketThreads : DeviceBlockPop(b)
    \/ \E b \in BucketThreads : DeviceBlockPush(b)
    \/ \E b \in BucketThreads : DeviceBlockNext(b)
    \/ \E w \in DeviceThreads : DeviceWorkerPop(w)
    \/ \E w \in DeviceThreads : DeviceWorkerGenerate(w)

RunSpec == RunInit /\ [][RunNext]_vars

\* Every thread that can take a step eventually takes one.
RunFairSpec == RunSpec /\ WF_vars(RunNext)

(***************************************************************************)
(* SimpleFileSet::ReaderThread and SimpleFileSet::MySplatStream            *)
(* (splat_tree_cl.h).  The reader thread serves requests for ranges of     *)
(* splat ids with buffers it takes from a pool; the stream consumes the    *)
(* buffers and gives them back.  A buffer is <<first, last, nSplats>>; the *)
(* splats themselves are left out, a decoded splat is finite or not, and   *)
(* so is what a buffer in the pool holds: the reader overwrites it.        *)
(* Every file has at least one byte per vertex and every vertex fits in a  *)
(* buffer.                                                                 *)
(***************************************************************************)
\* The capacities of the queues of the reader thread, and the number of
\* items its constructor makes.
InCapacity == 1

OutCapacity == 2

PoolCapacity == 2

PoolItems == 2

\* The null shared_ptr<Item>.
NullItem == <<>>

\* An item of the pool.
FreeItem == <<0, 0, 0>>

\* No open handle.
NoHandle == 0 - 1

\* The request that stops the reader thread.
Sentinel == <<1, 0>>

\* id >> scanIdShift.
FileOf(id) == id \div Pow2(scanIdShift)

\* id & splatIdMask.
OffsetOf(id) == id % Pow2(scanIdShift)

\* The id of the first splat of a file.
FirstOf(fileId) == fileId * Pow2(scanIdShift)

\* files[fileId].size().
FileSize(fileId) == files[fileId + 1]

\* 'end' as the reader computes it for the chunk that starts at 'first'.
ChunkEnd(first, last) ==
    LET fileId == FileOf(first)
        start == OffsetOf(first)
        end == Min({start + maxSplats, FileSize(fileId)})
    IN  IF FileOf(last) = fileId THEN Min({end, OffsetOf(last)}) ELSE end

\* Never draining the reader.
NeverDrain(empty) == FALSE

\* The test of ~MySplatStream and reset for draining the reader.
MustDrain(empty) == ~empty

\* The ids the user may pass to the constructor and to reset: around the
\* start and the end of every file, and past the last file.
RequestIds ==
    {FirstOf(f) + o : f \in 0..Len(files), o \in 0..MaxFileSize}

\* A set of up to MaxFiles files of up to MaxFileSize splats, the constructor
\* of ReaderThread, and the start of the thread; the constructor of
\* MySplatStream has set isEmpty and is about to call reset.
StreamInit ==
    /\ AtRest
    /\ NoRead
    /\ NoBlobs
    /\ NoRun
    /\ NoMesher
    /\ \E n \in 1..MaxFiles : files \in [1..n -> 0..MaxFileSize]
    /\ maxSplats \in 1..MaxBufferSplats
    /\ inQueue = <<>>
    /\ outQueue = <<>>
    /\ pool = [i \in 1..PoolItems |-> FreeItem]
    /\ req = <<0, 0>>
    /\ readerThread = [pc |-> "pop", first |-> 0, last |-> 0, item |-> NullItem,
                       handleId |-> NoHandle]
    /\ streamPc = "construct"
    /\ resetArgs = <<0, 0>>
    /\ drained = NullItem
    /\ buffer = NullItem
    /\ bufferCur = 0
    /\ isEmpty = TRUE
    /\ resets = 0
    /\ pushedIds = <<>>
    /\ progress = [requests |-> 0, markers |-> 0]

\* What the reader thread and the stream leave alone.
outsideStream == <<marchingState, gather, ply, blobs, run, mesher, files,
                   maxSplats>>

\* What the reader thread leaves alone of the stream.
consumer == <<streamPc, resetArgs, drained, buffer, bufferCur, isEmpty, resets>>

\* The reader pops a request; the sentinel ends the thread.
ReaderPop ==
    /\ readerThread.pc = "pop"
    /\ inQueue # <<>>
    /\ req' = Head(inQueue)
    /\ inQueue' = Tail(inQueue)
    /\ readerThread' =
         IF req'[1] > req'[2]
         THEN [readerThread EXCEPT !.pc = "exit"]
         ELSE [readerThread EXCEPT !.pc = "loop", !.first = req'[1],
                                   !.last = req'[2], !.handleId = NoHandle]
    /\ pushedIds' = <<>>
    /\ UNCHANGED <<outQueue, pool, progress, consumer, outsideStream>>

\* One test of 'first < last' and the body of the loop up to pool.pop(), or
\* all of it when the chunk is empty.
ReaderLoop ==
    /\ readerThread.pc = "loop"
    /\ LET first == readerThread.first
           last == readerThread.last
           fileId == FileOf(first)
           start == OffsetOf(first)
           end == ChunkEnd(first, last)
       IN  readerThread' =
             IF ~(first < last)
             THEN [readerThread EXCEPT !.pc = "done"]
             ELSE IF start < end
             THEN [readerThread EXCEPT !.pc = "item", !.handleId = fileId]
             ELSE IF end = FileSize(fileId)
             THEN [readerThread EXCEPT !.first = FirstOf(fileId + 1)]
             ELSE readerThread
    /\ UNCHANGED <<inQueue, outQueue, pool, req, pushedIds, progress, consumer,
                   outsideStream>>

\* pool.pop(), and the item is filled with the chunk.
ReaderItem ==
    /\ readerThread.pc = "item"
    /\ pool # <<>>
    /\ pool' = Tail(pool)
    /\ LET first == readerThread.first
           n == ChunkEnd(first, readerThread.last) - OffsetOf(first)
       IN  readerThread' = [readerThread EXCEPT !.pc = "push",
                                                !.item = <<first, first + n, n>>]
    /\ UNCHANGED <<inQueue, outQueue, req, pushedIds, progress, consumer,
                   outsideStream>>

\* outQueue.push(item), and 'first' moves past the chunk, and to the next
\* file at the end of this one.
ReaderPush ==
    /\ readerThread.pc = "push"
    /\ Len(outQueue) < OutCapacity
    /\ outQueue' = Append(outQueue, readerThread.item)
    /\ LET first == readerThread.first
           fileId == FileOf(first)
           end == ChunkEnd(first, readerThread.last)
           n == end - OffsetOf(first)
       IN  /\ readerThread' =
                [readerThread EXCEPT !.pc = "loop", !.item = NullItem,
                   !.first = IF end = FileSize(fileId)
                             THEN FirstOf(fileId + 1) ELSE first + n]
           /\ pushedIds' = pushedIds \o [k \in 1..n |-> first + k - 1]
    /\ UNCHANGED <<inQueue, pool, req, progress, consumer, outsideStream>>

\* The completion marker.
ReaderDone ==
    /\ readerThread.pc = "done"
    /\ Len(outQueue) < OutCapacity
    /\ outQueue' = Append(outQueue, NullItem)
    /\ readerThread' = [readerThread EXCEPT !.pc = "pop", !.handleId = NoHandle]
    /\ progress' = [progress EXCEPT !.markers = @ + 1]
    /\ UNCHANGED <<inQueue, pool, req, pushedIds, consumer, outsideStream>>

ReaderNext ==
    \/ ReaderPop
    \/ ReaderLoop
    \/ ReaderItem
    \/ ReaderPush
    \/ ReaderDone

\* What the stream leaves alone of the reader thread.
producer == <<req, readerThread, pushedIds>>

\* The head of reset: the arguments are clamped to the files.
Reset(first, last) ==
    LET limit == FirstOf(Len(files))
        clamped == Min({last, limit})
    IN  /\ resetArgs' = <<Min({first, clamped}), clamped>>
        /\ streamPc' = IF MustDrain(isEmpty) THEN "reset_drain" ELSE "reset_push"

\* The constructor of MySplatStream calls reset.
StreamConstruct ==
    /\ streamPc = "construct"
    /\ \E first \in RequestIds, last \in RequestIds :
         first <= last /\ Reset(first, last)
    /\ UNCHANGED <<inQueue, outQueue, pool, drained, buffer, bufferCur, isEmpty,
                   resets, progress, producer, outsideStream>>

\* The user calls reset.
StreamReset ==
    /\ streamPc = "ready"
    /\ resets < MaxResets
    /\ resets' = resets + 1
    /\ \E first \in RequestIds, last \in RequestIds :
         first <= last /\ Reset(first, last)
    /\ UNCHANGED <<inQueue, outQueue, pool, drained, buffer, bufferCur, isEmpty,
                   progress, producer, outsideStream>>

\* drain: item = pop(); the null item ends the loop.
DrainPop(at, next) ==
    /\ streamPc = at
    /\ drained = NullItem
    /\ outQueue # <<>>
    /\ outQueue' = Tail(outQueue)
    /\ drained' = Head(outQueue)
    /\ streamPc' = IF Head(outQueue) = NullItem THEN next ELSE at
    /\ UNCHANGED <<inQueue, pool, resetArgs, buffer, bufferCur, isEmpty, resets,
                   progress, producer, outsideStream>>

\* drain: push(item).
DrainPush(at) ==
    /\ streamPc = at
    /\ drained # NullItem
    /\ Len(pool) < PoolCapacity
    /\ pool' = Append(pool, FreeItem)
    /\ drained' = NullItem
    /\ UNCHANGED <<inQueue, outQueue, streamPc, resetArgs, buffer, bufferCur,
                   isEmpty, resets, progress, producer, outsideStream>>

ResetDrainPop == DrainPop("reset_drain", "reset_push")

ResetDrainPush == DrainPush("reset_drain")

\* reset gives its buffer back.
ResetPush ==
    /\ streamPc = "reset_push"
    /\ IF buffer # NullItem
       THEN /\ Len(pool) < PoolCapacity
            /\ pool' = Append(pool, FreeItem)
            /\ buffer' = NullItem
       ELSE UNCHANGED <<pool, buffer>>
    /\ streamPc' = "reset_request"
    /\ UNCHANGED <<inQueue, outQueue, resetArgs, drained, bufferCur, isEmpty,
                   resets, progress, producer, outsideStream>>

\* reset makes the request, up to its call of refill.
ResetRequest ==
    /\ streamPc = "reset_request"
    /\ Len(inQueue) < InCapacity
    /\ inQueue' = Append(inQueue, resetArgs)
    /\ isEmpty' = FALSE
    /\ bufferCur' = 0
    /\ progress' = [progress EXCEPT !.requests = @ + 1]
    /\ resetArgs' = <<0, 0>>
    /\ streamPc' = "refill"
    /\ UNCHANGED <<outQueue, pool, drained, buffer, resets, producer,
                   outsideStream>>

\* refill gives back the buffer it has used up.
RefillPush ==
    /\ streamPc = "refill"
    /\ buffer # NullItem
    /\ bufferCur = buffer[3]
    /\ Len(pool) < PoolCapacity
    /\ pool' = Append(pool, FreeItem)
    /\ buffer' = NullItem
    /\ UNCHANGED <<inQueue, outQueue, streamPc, resetArgs, drained, bufferCur,
                   isEmpty, resets, progress, producer, outsideStream>>

\* refill pops the next buffer; the null item ends the stream.
RefillPop ==
    /\ streamPc = "refill"
    /\ buffer = NullItem
    /\ outQueue # <<>>
    /\ outQueue' = Tail(outQueue)
    /\ buffer' = Head(outQueue)
    /\ bufferCur' = 0
    /\ IF Head(outQueue) = NullItem
       THEN isEmpty' = TRUE /\ streamPc' = "ready"
       ELSE UNCHANGED <<isEmpty, streamPc>>
    /\ UNCHANGED <<inQueue, pool, resetArgs, drained, resets, progress, producer,
                   outsideStream>>

\* refill decodes the splat at bufferCur and skips it if it is not finite.
RefillDecode ==
    /\ streamPc = "refill"
    /\ buffer # NullItem
    /\ bufferCur < buffer[3]
    /\ \E finite \in BOOLEAN :
         IF finite
         THEN streamPc' = "ready" /\ UNCHANGED bufferCur
         ELSE bufferCur' = bufferCur + 1 /\ UNCHANGED streamPc
    /\ UNCHANGED <<inQueue, outQueue, pool, resetArgs, drained, buffer, isEmpty,
                   resets, progress, producer, outsideStream>>

\* The user calls operator++.
StreamIncrement ==
    /\ streamPc = "ready"
    /\ ~isEmpty
    /\ bufferCur' = bufferCur + 1
    /\ streamPc' = "refill"
    /\ UNCHANGED <<inQueue, outQueue, pool, resetArgs, drained, buffer, isEmpty,
                   resets, progress, producer, outsideStream>>

\* The user destroys the stream.
StreamDestroy ==
    /\ streamPc = "ready"
    /\ streamPc' = IF MustDrain(isEmpty) THEN "destroy_drain" ELSE "stop"
    /\ UNCHANGED <<inQueue, outQueue, pool, resetArgs, drained, buffer, bufferCur,
                   isEmpty, resets, progress, producer, outsideStream>>

DestroyDrainPop == DrainPop("destroy_drain", "stop")

DestroyDrainPush == DrainPush("destroy_drain")

\* readerThread.stop().
ReaderStop ==
    /\ streamPc = "stop"
    /\ Len(inQueue) < InCapacity
    /\ inQueue' = Append(inQueue, Sentinel)
    /\ streamPc' = "join"
    /\ UNCHANGED <<outQueue, pool, resetArgs, drained, buffer, bufferCur, isEmpty,
                   resets, progress, producer, outsideStream>>

\* thread.join() returns, and with it the destructor.
ThreadJoin ==
    /\ streamPc = "join"
    /\ readerThread.pc = "exit"
    /\ streamPc' = "destroyed"
    /\ UNCHANGED <<inQueue, outQueue, pool, resetArgs, drained, buffer, bufferCur,
                   isEmpty, resets, progress, producer, outsideStream>>

ConsumerNext ==
    \/ StreamConstruct
    \/ StreamReset
    \/ ResetDrainPop
    \/ ResetDrainPush
    \/ ResetPush
    \/ ResetRequest
    \/ RefillPush
    \/ RefillPop
    \/ RefillDecode
    \/ StreamIncrement
    \/ StreamDestroy
    \/ DestroyDrainPop
    \/ DestroyDrainPush
    \/ ReaderStop
    \/ ThreadJoin

StreamNext == ReaderNext \/ ConsumerNext

StreamSpec == StreamInit /\ [][StreamNext]_vars

\* The reader thread runs while it can, the calls of the stream run to their
\* ends, and the user goes on to the next call.
StreamFairSpec ==
    StreamSpec /\ WF_vars(ReaderNext) /\ WF_vars(ConsumerNext)

(***************************************************************************)
(* StxxlMesher (splat_tree_cl.h): add() is called with meshes, one call at *)
(* a time, and then write().  A mesh has numInternal internal vertices     *)
(* 0..numInternal-1 followed by one external vertex per vertex key, and    *)
(* triangles over the vertices.  The positions of the vertices are left    *)
(* out, and so are the writer and the statistics.  A clump of a chunk      *)
(* holds its triangles instead of their range in StxxlMesher::triangles.   *)
(* Clump ids count from 1, and parent 0 marks a root of the union-find     *)
(* forest.                                                                 *)
(***************************************************************************)
\* badIndex of write: the largest index.
badIndex == Pow2(IndexBits) - 1

\* ~t for an index t.
IndexNot(t) == Pow2(IndexBits) - 1 - t

\* The vertex keys a mesh may hold: distinct ones, in any order.
KeySeqs(n) ==
    {s \in [1..n -> 1..MaxKeys] : \A a, b \in 1..n : a # b => s[a] # s[b]}

\* The triangles over n vertices.
TrianglesOver(n) ==
    {<<a, b, c>> : a, b, c \in 0..(n - 1)} \cap
    {t \in (0..(n - 1)) \X (0..(n - 1)) \X (0..(n - 1)) : t[1] < t[2] /\ t[2] < t[3]}

\* The meshes add is called with.
Meshes ==
    UNION {[numInternal : {p[1]}, vertexKeys : KeySeqs(p[2]),
            triangles : UNION {[1..m -> TrianglesOver(p[1] + p[2])] :
                                 m \in 0..MaxMeshTriangles}] :
             p \in {q \in (0..MaxMeshVertices) \X (0..MaxKeys) :
                      q[1] + q[2] \in 1..MaxMeshVertices}}

\* UnionFind::findRoot on the clumps.
RECURSIVE findRoot(_, _)
findRoot(cl, c) == IF cl[c].parent = 0 THEN c ELSE findRoot(cl, cl[c].parent)

\* UnionFind::merge on the clumps: the roots of a and b are joined, and the
\* counts of the two are added up.
merge(cl, a, b) ==
    LET ra == findRoot(cl, a)
        rb == findRoot(cl, b)
    IN  IF ra = rb
        THEN cl
        ELSE [cl EXCEPT ![rb].parent = ra,
                        ![ra].vertices = cl[ra].vertices + cl[rb].vertices,
                        ![ra].triangles = cl[ra].triangles + cl[rb].triangles]

\* The union-find of computeLocalComponents from triangle k on: root[v] is
\* the root of vertex v, the least vertex of its component.
RECURSIVE MergeTriangles(_, _, _)
MergeTriangles(root, triangles, k) ==
    IF k > Len(triangles)
    THEN root
    ELSE LET t == triangles[k]
             joined == {root[t[1]], root[t[2]], root[t[3]]}
             least == Min(joined)
         IN  MergeTriangles([v \in DOMAIN root |->
                               IF root[v] \in joined THEN least ELSE root[v]],
                            triangles, k + 1)

computeLocalComponents(numVertices, triangles) ==
    MergeTriangles([v \in 0..(numVertices - 1) |-> v], triangles, 1)

\* updateGlobalClumps: a new clump for every root, in the order of the
\* vertices; the clump id of every vertex; and the triangle counts.
updateGlobalClumps(cl, root, triangles) ==
    LET roots == {v \in DOMAIN root : root[v] = v}
        Rank(r) == Cardinality({q \in roots : q <= r})
        RootAt(k) == CHOOSE r \in roots : Rank(r) = k
        Fresh(r) ==
            [parent |-> 0,
             vertices |-> Cardinality({v \in DOMAIN root : root[v] = r}),
             triangles |-> Cardinality({i \in 1..Len(triangles) :
                                          root[triangles[i][1]] = r})]
    IN  [clumps |-> cl \o [k \in 1..Cardinality(roots) |-> Fresh(RootAt(k))],
         clumpId |-> [v \in DOMAIN root |-> Len(cl) + Rank(root[v])]]

\* Leaving the clumps of two external vertices with one key apart.
LeftApart(cl, cid, cid2) == cl

\* updateClumpKeyMap unifies the clumps of two external vertices with one
\* key.
Unified(cl, cid, cid2) == merge(cl, cid, cid2)

\* map.insert(make_pair(key, value)) into a map that does not hold the key.
Inserted(map, key, value) ==
    [k \in DOMAIN map \cup {key} |-> IF k = key THEN value ELSE map[k]]

\* updateClumpKeyMap from external vertex i on (counted from 1).
RECURSIVE updateClumpKeyMap(_, _, _, _, _, _)
updateClumpKeyMap(cl, map, keys, clumpId, numInternalVertices, i) ==
    IF i > Len(keys)
    THEN [clumps |-> cl, clumpIdMap |-> map]
    ELSE LET key == keys[i]
             cid == clumpId[i - 1 + numInternalVertices]
         IN  IF key \in DOMAIN map
             THEN LET merged == Unified(cl, cid, map[key])
                      root == findRoot(merged, cid)
                  IN  updateClumpKeyMap(
                          [merged EXCEPT ![root].vertices = @ - 1],
                          map, keys, clumpId, numInternalVertices, i + 1)
             ELSE updateClumpKeyMap(cl, Inserted(map, key, cid), keys, clumpId,
                                    numInternalVertices, i + 1)

\* tmpVertexOrder after the sort: by clump id, and by vertex within a clump.
VertexOrder(clumpId) ==
    LET Before(u, v) == \/ clumpId[u] < clumpId[v]
                        \/ clumpId[u] = clumpId[v] /\ u < v
    IN  [k \in 1..Cardinality(DOMAIN clumpId) |->
           CHOOSE v \in DOMAIN clumpId :
             Cardinality({u \in DOMAIN clumpId : Before(u, v)}) = k - 1]

\* The loops over the vertices of updateLocalClumps from position k of the
\* order on: the labels of the vertices, the vertex id map of the chunk, and
\* the external vertices that are elided.
RECURSIVE LabelVertices(_, _, _, _, _)
LabelVertices(st, order, k, clumpId, mesh) ==
    IF k > Len(order)
    THEN st
    ELSE LET vid == order[k]
             numInternalVertices == mesh.numInternal
             first == Min({j \in 1..k : clumpId[order[j]] = clumpId[vid]})
         IN  IF vid >= numInternalVertices
             THEN LET key == mesh.vertexKeys[vid - numInternalVertices + 1]
                      isNew == key \notin DOMAIN st.vertexIdMap
                      label == IF isNew
                               THEN IndexNot(st.numExternalVertices)
                               ELSE st.vertexIdMap[key]
                  IN  LabelVertices(
                        [vertexIdMap |-> IF isNew
                                         THEN Inserted(st.vertexIdMap, key, label)
                                         ELSE st.vertexIdMap,
                         numExternalVertices |->
                           st.numExternalVertices + (IF isNew THEN 1 ELSE 0),
                         label |-> [st.label EXCEPT ![vid] = label],
                         elided |-> IF isNew THEN st.elided
                                    ELSE st.elided \cup {vid}],
                        order, k + 1, clumpId, mesh)
             ELSE LabelVertices([st EXCEPT !.label[vid] = k - first],
                                order, k + 1, clumpId, mesh)

\* updateLocalClumps: the chunk with the clumps of the mesh buffered.
updateLocalClumps(chunk, globalClumpId, mesh) ==
    LET vertices == DOMAIN globalClumpId
        st == LabelVertices(
                [vertexIdMap |-> chunk.vertexIdMap,
                 numExternalVertices |-> chunk.numExternalVertices,
                 label |-> [v \in vertices |-> 0],
                 elided |-> {}],
                VertexOrder(globalClumpId), 1, globalClumpId, mesh)
        cids == {globalClumpId[v] : v \in vertices}
        CidAt(k) == CHOOSE c \in cids : Cardinality({d \in cids : d <= c}) = k
        Labelled(t) == <<st.label[t[1]], st.label[t[2]], st.label[t[3]]>>
        ClumpOf(cid) ==
            [numInternalVertices |->
               Cardinality({v \in vertices : /\ globalClumpId[v] = cid
                                             /\ v < mesh.numInternal}),
             numExternalVertices |->
               Cardinality({v \in vertices : /\ globalClumpId[v] = cid
                                             /\ v >= mesh.numInternal
                                             /\ v \notin st.elided}),
             triangles |->
               LET mine == SelectSeq(mesh.triangles,
                                     LAMBDA t : globalClumpId[t[1]] = cid)
               IN  [n \in 1..Len(mine) |-> Labelled(mine[n])],
             globalId |-> cid]
    IN  [chunk EXCEPT
           !.vertexIdMap = st.vertexIdMap,
           !.numExternalVertices = st.numExternalVertices,
           !.bufferedClumps = @ \o [k \in 1..Cardinality(cids) |-> ClumpOf(CidAt(k))]]

\* flushBuffer: the buffered clumps of every chunk become clumps of it.
flushBuffer(chs) ==
    [i \in DOMAIN chs |-> [chs[i] EXCEPT !.clumps = @ \o chs[i].bufferedClumps,
                                         !.bufferedClumps = <<>>]]

\* A chunk that chunks.resize makes.
NoChunk ==
    [clumps |-> <<>>, bufferedClumps |-> <<>>, vertexIdMap |-> <<>>,
     numExternalVertices |-> 0]

\* A new mesher, before any call of add.
MesherInit ==
    /\ AtRest
    /\ NoRead
    /\ NoBlobs
    /\ NoRun
    /\ NoStream
    /\ clumps = <<>>
    /\ clumpIdMap = <<>>
    /\ chunks = <<>>
    /\ added = 0
    /\ mesherPc = "add"
    /\ written = <<>>
    /\ remapOk = TRUE

\* What the mesher leaves alone.
outsideMesher == <<marchingState, gather, ply, blobs, run, stream>>

\* add, for a mesh of any chunk; the buffer is flushed or not, as its
\* capacity has it.
MesherAdd ==
    /\ mesherPc = "add"
    /\ added < MaxAdds
    /\ added' = added + 1
    /\ \E gen \in 0..(MaxChunks - 1), mesh \in Meshes, flush \in BOOLEAN :
         LET resized == [i \in 1..(IF gen >= Len(chunks) THEN gen + 1
                                   ELSE Len(chunks)) |->
                           IF i <= Len(chunks) THEN chunks[i] ELSE NoChunk]
             numVertices == mesh.numInternal + Len(mesh.vertexKeys)
             tmpNodes == computeLocalComponents(numVertices, mesh.triangles)
             global == updateGlobalClumps(clumps, tmpNodes, mesh.triangles)
             keyed == updateClumpKeyMap(global.clumps, clumpIdMap,
                                        mesh.vertexKeys, global.clumpId,
                                        mesh.numInternal, 1)
             flushed == IF flush THEN flushBuffer(resized) ELSE resized
         IN  /\ clumps' = keyed.clumps
             /\ clumpIdMap' = keyed.clumpIdMap
             /\ chunks' = [flushed EXCEPT ![gen + 1] =
                             updateLocalClumps(@, global.clumpId, mesh)]
    /\ UNCHANGED <<mesherPc, written, remapOk, outsideMesher>>

\* The clump of a chunk is kept: its root has enough vertices.
Kept(cc, thresholdVertices) ==
    clumps[findRoot(clumps, cc.globalId)].vertices >= thresholdVertices

\* The first loop over the clumps of a chunk in write, from clump j on:
\* startVertex, externalRemap and writtenVertices.
RECURSIVE WriteClumpVertices(_, _, _, _)
WriteClumpVertices(st, ccs, j, thresholdVertices) ==
    IF j > Len(ccs)
    THEN st
    ELSE LET cc == ccs[j]
             started == Append(st.startVertex, st.writtenVertices)
         IN  IF Kept(cc, thresholdVertices)
             THEN LET base == st.writtenVertices + cc.numInternalVertices
                  IN  WriteClumpVertices(
                        [startVertex |-> started,
                         externalRemap |-> st.externalRemap \o
                           [i \in 1..cc.numExternalVertices |-> base + i - 1],
                         writtenVertices |-> base + cc.numExternalVertices],
                        ccs, j + 1, thresholdVertices)
             ELSE WriteClumpVertices(
                        [startVertex |-> started,
                         externalRemap |-> st.externalRemap \o
                           [i \in 1..cc.numExternalVertices |-> badIndex],
                         writtenVertices |-> st.writtenVertices],
                        ccs, j + 1, thresholdVertices)

\* The index t of a triangle of clump j is external.
IsExternal(t, st) == IndexNot(t) < Len(st.externalRemap)

\* The index t of a triangle of clump j, converted.
Converted(t, j, st) ==
    IF IsExternal(t, st)
    THEN st.externalRemap[IndexNot(t) + 1]
    ELSE t + st.startVertex[j]

\* write for one chunk: externalRemap, the triangles written, and whether
\* every assert passed.
WriteChunk(ccs, thresholdVertices) ==
    LET kept == {j \in 1..Len(ccs) : Kept(ccs[j], thresholdVertices)}
        chunkTriangles == SumOver([j \in 1..Len(ccs) |->
                                     IF j \in kept THEN Len(ccs[j].triangles)
                                     ELSE 0], 1, Len(ccs))
        st == WriteClumpVertices([startVertex |-> <<>>, externalRemap |-> <<>>,
                             writtenVertices |-> 0], ccs, 1, thresholdVertices)
    IN  IF chunkTriangles > 0
        THEN [externalRemap |-> st.externalRemap,
              triangles |->
                [j \in 1..Len(ccs) |->
                   IF j \in kept
                   THEN [n \in 1..Len(ccs[j].triangles) |->
                           [k \in 1..3 |-> Converted(ccs[j].triangles[n][k], j, st)]]
                   ELSE <<>>],
              ok |-> \A j \in kept : \A n \in 1..Len(ccs[j].triangles) :
                       \A k \in 1..3 :
                         IsExternal(ccs[j].triangles[n][k], st)
                           => Converted(ccs[j].triangles[n][k], j, st) # badIndex]
        ELSE [externalRemap |-> <<>>, triangles |-> <<>>, ok |-> TRUE]

\* The number of vertices of the mesh: those of the root clumps.
TotalVertices ==
    SumOver([c \in 1..Len(clumps) |->
               IF clumps[c].parent = 0 THEN clumps[c].vertices ELSE 0],
            1, Len(clumps))

\* write, for any prune threshold between 0 and 1.
MesherWrite ==
    /\ mesherPc = "add"
    /\ \E thresholdVertices \in 0..TotalVertices :
         LET flushed == flushBuffer(chunks)
             out == [i \in DOMAIN flushed |->
                       WriteChunk(flushed[i].clumps, thresholdVertices)]
         IN  /\ chunks' = flushed
             /\ written' = [i \in DOMAIN out |->
                              [externalRemap |-> out[i].externalRemap,
                               triangles |-> out[i].triangles,
                               thresholdVertices |-> thresholdVertices]]
             /\ remapOk' = \A i \in DOMAIN out : out[i].ok
    /\ mesherPc' = "written"
    /\ UNCHANGED <<clumps, clumpIdMap, added, outsideMesher>>

MesherNext ==
    \/ MesherAdd
    \/ MesherWrite

MesherSpec == MesherInit /\ [][MesherNext]_vars

TypeOK ==
    pc \in {"idle", "loop", "counted", "generate", "finish", "done",
            "shipOut", "shipped", "thrown", "new", "tables", "tabled",
            "hostLoop", "hostCells", "hostCellsFinish", "hostCount",
            "hostCountRead", "hostShipOut", "hostShipFinish", "hostGenerate",
            "hostEnd", "gather"}

(***************************************************************************)
(* Properties.                                                             *)
(***************************************************************************)
Last(s) == s[Len(s)]

\* Sum of the counts of the layers in a sequence of accumulated layers.
SumCounts(acc) ==
    <<SumSeq([n \in 1..Len(acc) |-> acc[n].counts[1]]),
      SumSeq([n \in 1..Len(acc) |-> acc[n].counts[2]])>>

\* C1: for a nonempty layer z with counts (dV, dI), a ship-out happens
\* immediately before the layer is generated exactly when offsets.V + dV >
\* vertexSpace or offsets.I + dI > indexSpace; it delivers exactly what was
\* accumulated from the earlier layers, offsets is reset to (0, 0), and the
\* layer is then generated at offset 0.
C1_ShipOutIffOverflow ==
    [][/\ pc = "counted" =>
            IF \/ offsets[1] + counts[1] > vertexSpace
               \/ offsets[2] + counts[2] > indexSpace
            THEN /\ outputs' = Append(outputs, Last(outputs'))
                 /\ Last(outputs').sizes = SumCounts(accumulated)
                 /\ DOMAIN Last(outputs').unsortedKeys
                        = 0..(SumCounts(accumulated)[1] - 1)
                 /\ 3 * Last(outputs').numTriangles
                        = SumCounts(accumulated)[2]
                 /\ Last(outputs').layers = AccumulatedLayers
                 /\ \A n \in DOMAIN AccumulatedLayers :
                        AccumulatedLayers[n] < z
                 /\ offsets' = <<0, 0>>
                 /\ z' = z
                 /\ pc' = "generate"
            ELSE /\ outputs' = outputs
                 /\ offsets' = <<offsets[1] + counts[1],
                                 offsets[2] + counts[2]>>
                 /\ Last(accumulated').z = z
                 /\ Last(accumulated').offsets = offsets
       /\ pc = "generate" =>
            /\ outputs' = outputs
            /\ offsets' = counts
            /\ offsets = <<0, 0>>
            /\ accumulated' = <<[z |-> z, offsets |-> <<0, 0>>,
                                 counts |-> counts]>>
      ]_vars

\* A mid-run ship-out has happened and layer 2 was generated at offset 0.
C1_Witness ==
    /\ pc = "loop"
    /\ shipOuts = 1
    /\ Len(outputs) = 1
    /\ Len(accumulated) = 1
    /\ accumulated[1].z = 2
    /\ accumulated[1].offsets = <<0, 0>>

\* C2: offsets never exceeds (vertexSpace, indexSpace), every layer is
\* written into a range inside the buffers, and the assertions after a
\* mid-run ship-out hold, each cell contributing at most MAX_CELL_VERTICES
\* vertices and MAX_CELL_INDICES indices.
C2_OffsetsWithinBuffers ==
    /\ offsets[1] <= vertexSpace
    /\ offsets[2] <= indexSpace
    /\ assertOk
    /\ \A n \in DOMAIN accumulated :
           /\ accumulated[n].offsets[1] + accumulated[n].counts[1]
                  <= vertexSpace
           /\ accumulated[n].offsets[2] + accumulated[n].counts[2]
                  <= indexSpace
    /\ pc \in {"counted", "generate"} =>
           /\ counts[1] <= Len(cells) * MAX_CELL_VERTICES
           /\ counts[2] <= Len(cells) * MAX_CELL_INDICES
    /\ pc = "generate" =>
           /\ counts[1] <= vertexSpace
           /\ counts[2] <= indexSpace

\* After a mid-run ship-out the layer to generate fills the vertex buffer.
C2_Witness ==
    /\ pc = "generate"
    /\ shipOuts = 1
    /\ assertOk
    /\ counts[1] = vertexSpace

JustShipped == pc \in {"generate", "finish", "shipped"}

\* The keys of the welded vertices of a mesh before the key offset was added,
\* in welded order.
LocalKeys(m) ==
    SetToSortedSeq({m.unsortedKeys[i] : i \in DOMAIN m.unsortedKeys})

\* The key of welded vertex w of a mesh with the key offset taken off again.
LocalKey(m, w) ==
    (m.vertexKeys[w] + KeyModulus - KeyOffsetL(m.keyOffset)) % KeyModulus

\* C4: after a ship-out numInternalVertices is the number of welded vertices
\* whose key before the offset is below minExternalKey = zMax << (2B+1); the
\* internal vertices are the welded indices below numInternalVertices and the
\* external ones those from it on; with no key at or above minExternalKey it
\* is numVertices and with every key at or above it it is 0.
C4_InternalVertexCount ==
    JustShipped =>
        LET m == Last(outputs)
            local == LocalKeys(m)
            minExt == m.zMax * Pow2(2 * KeyAxisBits + 1)
        IN  /\ m.numInternalVertices
                   = Cardinality({w \in 1..Len(local) : local[w] < minExt})
            /\ m.numInternalVertices <= m.numVertices
            /\ \A w \in 0..(m.numVertices - 1) :
                   (w < m.numInternalVertices) <=> (LocalKey(m, w) < minExt)
            /\ (\A w \in 1..Len(local) : local[w] < minExt)
                   => m.numInternalVertices = m.numVertices
            /\ (\A w \in 1..Len(local) : local[w] >= minExt)
                   => m.numInternalVertices = 0

\* A ship-out of three distinct keys of which the last two are external,
\* with another value left in firstExternal before it.
C4_Witness ==
    /\ pc = "shipped"
    /\ outputs[1].numVertices = 3
    /\ outputs[1].numInternalVertices = 1
    /\ firstExternal = 1

\* The plane a ship-out of generate was cut at: the top plane of the last
\* layer in it.
CutPlane(m) == Last(m.layers)

CountKey(keys, key) == Cardinality({i \in DOMAIN keys : keys[i] = key})

\* C7: after the stable key sort vertexUnique is 1 exactly at the first
\* element of each run of equal keys, numVertices is the number of distinct
\* keys among the unwelded keys, and one welded vertex is written per
\* distinct key (that of the first unwelded vertex with the key).
C7_UniquePerDistinctKey ==
    JustShipped =>
        LET m == Last(outputs)
            V == m.sizes[1]
            distinct == {m.unsortedKeys[i] : i \in 0..(V - 1)}
        IN  /\ \A i \in 1..(V - 1) : m.sortedKeys[i - 1] <= m.sortedKeys[i]
            /\ \A key \in distinct :
                   CountKey(m.sortedKeys, key) = CountKey(m.unsortedKeys, key)
            /\ \A i \in 0..(V - 1) :
                   (m.vertexUnique[i] = 1)
                       <=> (\A j \in 0..(i - 1) :
                                m.sortedKeys[j] # m.sortedKeys[i])
            /\ m.numVertices = Cardinality(distinct)
            /\ DOMAIN m.vertices = 0..(m.numVertices - 1)
            /\ DOMAIN m.vertexKeys = 0..(m.numVertices - 1)
            /\ {LocalKey(m, w) : w \in 0..(m.numVertices - 1)} = distinct
            /\ \A w \in 0..(m.numVertices - 1) :
                   LET first == Min({i \in 0..(V - 1) :
                                        m.unsortedKeys[i] = LocalKey(m, w)})
                   IN  /\ m.vertices[w].p = m.unsortedVertices[first].p
                       /\ m.vertices[w].q = m.unsortedVertices[first].q

\* A ship-out of three vertices whose first and last have the same key.
C7_Witness ==
    /\ pc = "shipped"
    /\ outputs[1].sizes[1] = 3
    /\ outputs[1].unsortedKeys[0] = outputs[1].unsortedKeys[2]
    /\ outputs[1].unsortedKeys[1] < outputs[1].unsortedKeys[0]
    /\ outputs[1].numVertices = 2

\* C8: after reindex every delivered index is in [0, numVertices) and names
\* the welded vertex whose key is the key, plus keyOffsetL, of the unwelded
\* vertex the index named before the sort; unwelded vertices with equal keys
\* are remapped to one welded index, no two welded vertices having one key.
C8_ReindexedTriangles ==
    JustShipped =>
        LET m == Last(outputs)
            I == m.sizes[2]
        IN  /\ DOMAIN m.triangles = 0..(I - 1)
            /\ \A j \in 0..(I - 1) :
                   /\ 0 <= m.triangles[j]
                   /\ m.triangles[j] < m.numVertices
                   /\ m.vertexKeys[m.triangles[j]]
                          = (m.unsortedKeys[m.unweldedIndices[j]]
                                 + KeyOffsetL(m.keyOffset)) % KeyModulus
            /\ \A w1, w2 \in 0..(m.numVertices - 1) :
                   m.vertexKeys[w1] = m.vertexKeys[w2] => w1 = w2

\* A ship-out of generate in which the sort moved a vertex that an index
\* names, and two unwelded vertices were welded.
C8_Witness ==
    /\ pc = "finish"
    /\ \E j \in DOMAIN outputs[1].triangles :
           outputs[1].triangles[j] # outputs[1].unweldedIndices[j]
    /\ outputs[1].numVertices < outputs[1].sizes[1]

\* Twice the midpoint of the edge an unwelded vertex lies on, in samples.
Midpoint2(v) == <<v.p[1] + v.q[1], v.p[2] + v.q[2], v.p[3] + v.q[3]>>

\* C9: within one ship-out the cells sharing an edge of the decomposition
\* emit the same key for the vertex on it, 2 * cell origin + key-table delta
\* packed per axis; vertices at different edge midpoints get different keys;
\* after welding the triangles of the cells name one welded vertex, the only
\* one at that midpoint.
C9_SharedEdgeSameKey ==
    JustShipped =>
        LET m == Last(outputs)
            V == m.sizes[1]
            I == m.sizes[2]
        IN  /\ \A i \in 0..(V - 1) :
                   m.unsortedKeys[i]
                       = computeKey(Midpoint2(m.unsortedVertices[i]))
            /\ \A i1, i2 \in 0..(V - 1) :
                   /\ (/\ m.unsortedVertices[i1].p = m.unsortedVertices[i2].p
                       /\ m.unsortedVertices[i1].q = m.unsortedVertices[i2].q)
                          <=> (m.unsortedKeys[i1] = m.unsortedKeys[i2])
                   /\ (Midpoint2(m.unsortedVertices[i1])
                           # Midpoint2(m.unsortedVertices[i2]))
                          => (m.unsortedKeys[i1] # m.unsortedKeys[i2])
            /\ \A j \in 0..(I - 1) :
                   Midpoint2(m.vertices[m.triangles[j]])
                       = Midpoint2(m.unsortedVertices[m.unweldedIndices[j]])
            /\ \A w1, w2 \in 0..(m.numVertices - 1) :
                   Midpoint2(m.vertices[w1]) = Midpoint2(m.vertices[w2])
                       => w1 = w2

\* Two cells of one layer have both emitted the vertex on an edge of the face
\* between them (x = 1, leaving the slice planes) and it was welded.
C9_Witness ==
    /\ pc = "finish"
    /\ size[1] = 3
    /\ \E i1, i2 \in DOMAIN outputs[1].unsortedKeys :
           /\ i1 # i2
           /\ outputs[1].unsortedKeys[i1] = outputs[1].unsortedKeys[i2]
           /\ outputs[1].unsortedVertices[i1].p[1] = 1
           /\ outputs[1].unsortedVertices[i1].q[1] = 1
           /\ outputs[1].unsortedVertices[i1].p[3]
                  # outputs[1].unsortedVertices[i1].q[3]

\* The coordinates packed in a key, in half cells.
KeyCoords(key) ==
    <<key % Pow2(KeyAxisBits), (key \div Pow2(KeyAxisBits)) % Pow2(KeyAxisBits),
      key \div Pow2(2 * KeyAxisBits)>>

\* Twice the position in the global grid of a welded vertex of a mesh.
GlobalLocation2(m, w) ==
    <<2 * m.keyOffset[1] + m.vertices[w].p[1] + m.vertices[w].q[1],
      2 * m.keyOffset[2] + m.vertices[w].p[2] + m.vertices[w].q[2],
      2 * m.keyOffset[3] + m.vertices[w].p[3] + m.vertices[w].q[3]>>

Accepted == pc \notin {"idle", "thrown"} /\ thrown = "none"

\* C11: a call of generate with depth 1 processes no layer: the input functor
\* is called for slice 0 only, no kernel is enqueued, nothing is shipped out,
\* the output functor is not called, and the call runs straight to its end.
C11_DepthOneNoLayer ==
    (Accepted /\ size[3] = 1) =>
        /\ inputCalls = <<0>>
        /\ compactedLog = <<>>
        /\ nonempty = <<>>
        /\ enqueued = <<>>
        /\ shipOuts = 0
        /\ outputs = <<>>
        /\ pc \in {"loop", "done"}
        /\ pc = "loop" =>
              /\ ENABLED Finish
              /\ ~ENABLED ProcessLayer
              /\ ~ENABLED RefuseEmptyRange
              /\ ~ENABLED FinalShipOut

C11_Witness ==
    /\ pc = "done"
    /\ thrown = "none"
    /\ size = <<2, 2, 1>>
    /\ inputCalls = <<0>>

\* No layer processed so far had an occupied cell.
AllLayersEmpty == \A n \in 1..Len(compactedLog) : compactedLog[n] = 0

RECURSIVE Repeat(_, _)
Repeat(s, n) == IF n = 0 THEN <<>> ELSE s \o Repeat(s, n - 1)

\* C12: while every layer of a call has had no occupied cell, only the
\* kernels of generateCells have been enqueued (no counting, no generation),
\* nothing has been shipped out, the output functor has not been called, and
\* 'nonempty' holds one sample per layer, each false; at the end of the call
\* that is one sample for each of the depth - 1 layers.
C12_EmptyLayersNoWork ==
    (Accepted /\ AllLayersEmpty) =>
        /\ enqueued = Repeat(CellKernels, Len(compactedLog))
        /\ nonempty = [n \in 1..Len(compactedLog) |-> FALSE]
        /\ shipOuts = 0
        /\ outputs = <<>>
        /\ accumulated = <<>>
        /\ offsets = <<0, 0>>
        /\ pc \in {"loop", "done"}
        /\ pc = "done" => Len(nonempty) = size[3] - 1

C12_Witness ==
    /\ pc = "done"
    /\ thrown = "none"
    /\ size = <<2, 2, 3>>
    /\ compactedLog = <<0, 0>>
    /\ nonempty = <<FALSE, FALSE>>

\* The exceptions that report a bad argument (both derive from
\* std::logic_error).
InvalidArgumentErrors == {"invalid_argument", "length_error"}

\* C13 as stated: a call of generate whose size violates 2 <= W <= maxWidth,
\* 2 <= H <= maxHeight or D >= 1 fails with an invalid-argument error before
\* the input functor is called, a kernel is enqueued or an output is made.
C13_AsStated ==
    (pc # "idle" /\ ~SizeOkTwoSamples(size)) =>
        /\ thrown \in InvalidArgumentErrors
        /\ inputCalls = <<>>
        /\ enqueued = <<>>
        /\ outputs = <<>>

\* C14: a constructor call with maxWidth or maxHeight outside
\* 2..MAX_DIMENSION throws invalid_argument, and neither the tables nor an
\* image nor a buffer exists afterwards.
C14_BadDimensionsRejected ==
    (pc # "new" /\ ~(maxWidth \in 2..MAX_DIMENSION
                     /\ maxHeight \in 2..MAX_DIMENSION)) =>
        /\ pc = "thrown"
        /\ thrown = "invalid_argument"
        /\ tablesMade = FALSE
        /\ allocated = <<>>
        /\ unweldedVertices = <<>>
        /\ unweldedVertexKeys = <<>>
        /\ indices = <<>>

C14_Witness ==
    /\ pc = "thrown"
    /\ thrown = "invalid_argument"
    /\ maxWidth = 1
    /\ maxHeight = MAX_DIMENSION + 1

\* The bag (multiset) of the elements of a sequence.
BagOfSeq(s) ==
    [x \in Range(s) |-> Cardinality({n \in DOMAIN s : s[n] = x})]

EntryOf(i) == hTables[i + 1]

\* The case the loop of makeTables has just finished.
LastCase == tableCase - 1

\* C17: the table entries of cube case 0 (every corner inside) and of cube
\* case 255 (every corner outside) have no vertex and no index, no
\* tetrahedron contributes a triangle, and the count the occupancy test
\* reads is (0, 0).
C17_UniformCasesEmpty ==
    \A i \in {0, NUM_CUBES - 1} :
        i < tableCase =>
            /\ EntryOf(i).rows.vertices = <<>>
            /\ EntryOf(i).rows.indices = <<>>
            /\ \A j \in 1..NUM_TETRAHEDRA : EntryOf(i).tets[j] = <<>>
            /\ CountOf(EntryOf(i).rows) = <<0, 0>>

C17_Witness ==
    /\ pc = "tabled"
    /\ Len(hTables) = NUM_CUBES
    /\ CountOf(EntryOf(NUM_CUBES - 1).rows) = <<0, 0>>
    /\ CountOf(EntryOf(1).rows)[1] > 0

\* A cube corner in doubled coordinates.
Corner2(v) == [axis \in 1..3 |-> 2 * Bit(v, axis - 1)]

\* The triangles of a list of edge numbers, three per triangle.
Triples(s) == [n \in 1..(Len(s) \div 3) |-> <<s[3 * n - 2], s[3 * n - 1], s[3 * n]>>]

Det3(a, b, c) ==
    a[1] * (b[2] * c[3] - b[3] * c[2])
        - a[2] * (b[1] * c[3] - b[3] * c[1])
        + a[3] * (b[1] * c[2] - b[2] * c[1])

Minus3(a, b) == [axis \in 1..3 |-> a[axis] - b[axis]]

\* Six times the signed volume of the tetrahedron spanned by the midpoints
\* of the edges of triangle t (doubled coordinates, the key-table deltas)
\* and cube corner v.
SignedVolume(t, v) ==
    Det3(Minus3(KeyDelta(t[2]), KeyDelta(t[1])),
         Minus3(KeyDelta(t[3]), KeyDelta(t[1])),
         Minus3(Corner2(v), KeyDelta(t[1])))

\* C18: in the entry of every cube case, every triangle has the same
\* orientation towards the outside: with the midpoints of its edges taken
\* in table order, the signed volume with each outside corner of the
\* tetrahedron it comes from is positive, and with each inside corner of
\* that tetrahedron negative.
C18_ConsistentWinding ==
    tableCase >= 1 =>
        \A j \in 1..NUM_TETRAHEDRA :
            \A n \in DOMAIN Triples(EntryOf(LastCase).tets[j]) :
                \A v \in Range(tetrahedronIndices[j]) :
                    LET t == Triples(EntryOf(LastCase).tets[j])[n]
                    IN  IF Bit(LastCase, v) = 1
                        THEN SignedVolume(t, v) > 0
                        ELSE SignedVolume(t, v) < 0

\* A case with flipped tetrahedra (more than two corners outside) and
\* unflipped ones has been tabulated.
C18_Witness ==
    /\ tableCase >= 1
    /\ LastCase = 131
    /\ \E j \in 1..NUM_TETRAHEDRA :
          /\ TetOutside(LastCase, tetrahedronIndices[j]) = 3
          /\ Len(EntryOf(LastCase).tets[j]) = 3
    /\ \E j \in 1..NUM_TETRAHEDRA :
          /\ TetOutside(LastCase, tetrahedronIndices[j]) = 2
          /\ Len(EntryOf(LastCase).tets[j]) = 6

\* The triangles of an entry, over all its tetrahedra.
EntryTriangles(entry) ==
    UNION {Range(Triples(entry.tets[j])) : j \in 1..NUM_TETRAHEDRA}

\* Number of triangles of an entry.
EntryTriangleCount(entry) ==
    SumSeq([j \in 1..NUM_TETRAHEDRA |-> Len(entry.tets[j]) \div 3])

\* A triangle up to rotation of its three edges.
Cyclic(t) == {<<t[1], t[2], t[3]>>, <<t[2], t[3], t[1]>>, <<t[3], t[1], t[2]>>}

Reversed(t) == <<t[3], t[2], t[1]>>

\* The cube case with every corner on the other side.
Complement(i) == NUM_CUBES - 1 - i

\* C19: the entries of a cube case and of its complement have the same
\* triangles with reversed winding (every triangle of one is, up to
\* rotation, the reverse of a triangle of the other), as many of them, and
\* the same edges in use.
C19_ComplementReversed ==
    (tableCase >= 1 /\ Complement(LastCase) < LastCase) =>
        LET a == EntryOf(LastCase)
            b == EntryOf(Complement(LastCase))
        IN  /\ {Cyclic(Reversed(t)) : t \in EntryTriangles(a)}
                   = {Cyclic(t) : t \in EntryTriangles(b)}
            /\ EntryTriangleCount(a) = EntryTriangleCount(b)
            /\ Cardinality(EntryTriangles(a)) = EntryTriangleCount(a)
            /\ a.rows.vertices = b.rows.vertices
            /\ Len(a.rows.indices) = Len(b.rows.indices)

\* The entry of a case with triangles has been compared with the entry of
\* its complement.
C19_Witness ==
    /\ tableCase >= 1
    /\ LastCase = 254
    /\ EntryTriangleCount(EntryOf(LastCase)) = 6
    /\ EntryTriangleCount(EntryOf(Complement(LastCase))) = 6

\* The sides of the triangles of an entry: side k of triangle n (a
\* tetrahedron has at most two) of tetrahedron j.
TriangleSides(entry) ==
    {x \in (1..NUM_TETRAHEDRA) \X (1..2) \X (1..3) :
        x[2] <= Len(entry.tets[x[1]]) \div 3}

\* The directed pair of side k of triangle n of tetrahedron j.
SideOf(entry, x) ==
    LET t == Triples(entry.tets[x[1]])[x[2]]
    IN  <<t[x[3]], t[(x[3] % 3) + 1]>>

\* Number of triangle sides of an entry running from edge a to edge b.
SideCount(entry, a, b) ==
    Cardinality({x \in TriangleSides(entry) : SideOf(entry, x) = <<a, b>>})

\* The midpoints of edges a and b lie on a common face of the cube.
OnCubeFace(a, b) ==
    \E axis \in 1..3 :
        /\ KeyDelta(a)[axis] = KeyDelta(b)[axis]
        /\ KeyDelta(a)[axis] \in {0, 2}

\* The edges of the cube decomposition whose ends are on different sides
\* of the surface in cube case i.
CrossingEdges(i) ==
    {e \in 0..(NUM_EDGES - 1) : Bit(i, Edge(e)[1]) # Bit(i, Edge(e)[2])}

\* C20: in the entry of every cube case the triangles form a closed
\* surface inside the cube that separates the inside from the outside
\* corners: a triangle side not lying in a face of the cube is the side of
\* exactly one other triangle, which runs along it in the opposite
\* direction; a side without such a partner lies in a face of the cube; and
\* the vertices of the triangles are exactly on the edges whose ends are on
\* different sides.
C20_ClosedSurface ==
    tableCase >= 1 =>
        LET entry == EntryOf(LastCase)
        IN  /\ \A x \in TriangleSides(entry) :
                  LET a == SideOf(entry, x)[1]
                      b == SideOf(entry, x)[2]
                  IN  /\ a # b
                      /\ SideCount(entry, a, b) = 1
                      /\ IF OnCubeFace(a, b)
                         THEN SideCount(entry, b, a) = 0
                         ELSE SideCount(entry, b, a) = 1
            /\ Range(entry.rows.vertices) = CrossingEdges(LastCase)

\* A case whose surface has sides inside the cube, between triangles of
\* different tetrahedra, and sides in the faces of the cube.
C20_Witness ==
    /\ tableCase >= 1
    /\ LastCase = 131
    /\ \E x, y \in TriangleSides(EntryOf(LastCase)) :
          /\ x[1] # y[1]
          /\ SideOf(EntryOf(LastCase), x)[1] = SideOf(EntryOf(LastCase), y)[2]
          /\ SideOf(EntryOf(LastCase), x)[2] = SideOf(EntryOf(LastCase), y)[1]
    /\ \E x \in TriangleSides(EntryOf(LastCase)) :
          OnCubeFace(SideOf(EntryOf(LastCase), x)[1],
                     SideOf(EntryOf(LastCase), x)[2])

\* The commands that write the unwelded buffers or work on them for a
\* ship-out.
BufferWriters == ShipOutCommands \cup {"generateElements"}

\* C16: a ship-out is a barrier.  While the event of an output functor has
\* not completed, no generateElements and no command of a ship-out (sentinel
\* write, sort, compaction, reindexing) enqueued after that functor was
\* called is running; until it completes they stay queued.
C16_ShipOutBarrier ==
    \A o \in pending : \A c \in pending :
        (o.kind = "output" /\ c.kind \in BufferWriters /\ c.id > o.id)
            => c.status = "queued"

\* After a ship-out whose functor has completed, the next ship-out has
\* begun on the device while the generation that followed the first is
\* over.
C16_Witness ==
    /\ shipOuts = 1
    /\ pc = "hostShipFinish"
    /\ \E c \in pending : c.kind = "sortVertices" /\ c.status = "running"
    /\ \A c \in pending : c.kind \notin {"output", "generateElements"}

\* The call of scenario S1 after its ship-out: one cell whose four low-z
\* corners are inside and whose four high-z corners are outside (case 0xF0).
PlaneCutShipped ==
    /\ size = <<2, 2, 2>>
    /\ images = <<{}, Points(2, 2)>>
    /\ pc = "finish"

\* The edges of the tetrahedral decomposition with one end in each z plane
\* of the cell at the origin, as pairs of corner positions.
PlaneCutEdges ==
    {<<Corner(<<0, 0, 0>>, Edge(e)[1]), Corner(<<0, 0, 0>>, Edge(e)[2])>> :
        e \in {d \in 0..(NUM_EDGES - 1) :
                  Bit(Edge(d)[1], 2) # Bit(Edge(d)[2], 2)}}

\* The welded vertices of a mesh, as the edges they lie on.
MeshEdges(m) ==
    {<<m.vertices[w].p, m.vertices[w].q>> : w \in DOMAIN m.vertices}

\* An edge along z.
Vertical(e) == e[1][1] = e[2][1] /\ e[1][2] = e[2][2]

CornerSevenCase == Pow2(7)

\* The edges of the decomposition that end at corner v, in edge order.
EdgesAt(v) ==
    SetToSortedSeq({e \in 0..(NUM_EDGES - 1) : v \in Range(Edge(e))})

\* C22: for the cube case whose only outside corner is corner 7 (case 0x80)
\* the case table holds six triangles, one from each tetrahedron (every
\* tetrahedron has corner 7), and seven vertices, one on each edge of the
\* decomposition that ends at corner 7: the cube edges (3,7), (5,7), (6,7),
\* the face diagonals (1,7), (2,7), (4,7) and the main diagonal (0,7), which
\* is an edge of all six triangles.
C22_CornerSevenCase ==
    CornerSevenCase < tableCase =>
        /\ CountOf(EntryOf(CornerSevenCase).rows) = <<7, 18>>
        /\ EntryOf(CornerSevenCase).rows.vertices = EdgesAt(7)
        /\ Len(EdgesAt(7)) = 7
        /\ \A j \in 1..NUM_TETRAHEDRA :
              /\ Len(EntryOf(CornerSevenCase).tets[j]) = 3
              /\ findEdgeByVertexIds(0, 7)
                    \in Range(EntryOf(CornerSevenCase).tets[j])

C22_Witness ==
    /\ LastCase = CornerSevenCase
    /\ Len(hTables) = CornerSevenCase + 1
    /\ EntryTriangleCount(EntryOf(CornerSevenCase)) = 6

\* C22 as the scenario has it: one triangle on the three cube edges at
\* corner 7.
C22_AsStated ==
    CornerSevenCase < tableCase =>
        /\ CountOf(EntryOf(CornerSevenCase).rows) = <<3, 3>>
        /\ Range(EntryOf(CornerSevenCase).rows.vertices)
              = {findEdgeByVertexIds(3, 7), findEdgeByVertexIds(5, 7),
                 findEdgeByVertexIds(6, 7)}

\* Number of times an item has been pushed to the output group.
Pushes(item) == Cardinality({k \in DOMAIN outGroup : outGroup[k].item = item})

\* C23, as stated: whatever sizeItem returns for it, an item handed to a
\* WorkerGather is received from the sender that announced it, into the
\* storage obtained for the size announced, and is pushed at most once; when
\* the receiver has returned, every item handed to a sender has been pushed
\* exactly once.
C23_AsStated ==
    /\ \A k \in DOMAIN outGroup :
          /\ outGroup[k].item.from = outGroup[k].source
          /\ outGroup[k].workSize = sizeItem(outGroup[k].item)
    /\ \A s \in Senders : \A n \in 1..Len(workItems[s]) :
          /\ Pushes(WorkItem(s, n)) <= 1
          /\ receiver.pc = "done" => Pushes(WorkItem(s, n)) = 1

\* C24, as stated: the receiver never returns while some sender has still
\* to announce or send an item or to call stop, or while an item sent has
\* not been received.
C24_AsStated ==
    receiver.pc = "done" =>
        \A s \in Senders :
            /\ sender[s].pc = "stopped"
            /\ channel[s].items = <<>>

\* The vector 'triangles' of an entry: the triangles of its tetrahedra in
\* the order of the tetrahedra.
EntryTriangleList(entry) ==
    entry.tets[1] \o entry.tets[2] \o entry.tets[3] \o entry.tets[4]
        \o entry.tets[5] \o entry.tets[6]

\* C26: for every cube case, makeTables gives the compact per-case vertex
\* indices to the edges in use in the order of their edge numbers (ascending
\* index into edgeIndices), whatever the order in which the triangle list
\* names them; the vertex edge list and the key table rows are emitted in
\* that same ascending order, and every triangle index is rewritten to the
\* compact index of its edge.
C26_CompactInEdgeOrder ==
    tableCase > 0 =>
        LET entry == EntryOf(LastCase)
            tris == EntryTriangleList(entry)
            edges == entry.rows.vertices
        IN  /\ Range(edges) = Range(tris)
            /\ \A n \in 1..(Len(edges) - 1) : edges[n] < edges[n + 1]
            /\ Len(entry.rows.keys) = Len(edges)
            /\ \A n \in 1..Len(edges) : entry.rows.keys[n] = KeyDelta(edges[n])
            /\ Len(entry.rows.indices) = Len(tris)
            /\ \A n \in 1..Len(tris) :
                  edges[entry.rows.indices[n] + 1] = tris[n]

\* A case whose triangle list names its edges in another order than that of
\* their numbers.
C26_Witness ==
    /\ tableCase > 0
    /\ EntryOf(LastCase).rows.vertices
          # FirstUseFrom(EntryTriangleList(EntryOf(LastCase)), {})
    /\ Len(EntryOf(LastCase).rows.vertices) = MAX_CELL_VERTICES

\* C26 as stated: the compact indices are given in first-use order.
C26_AsStated ==
    tableCase > 0 =>
        EntryOf(LastCase).rows.vertices
            = FirstUseFrom(EntryTriangleList(EntryOf(LastCase)), {})

\* Whether tetrahedron j has its flags inverted in cube case i.
FlipOf(i, j) == IF TetOutside(i, tetrahedronIndices[j]) > 2 THEN 1 ELSE 0

\* The rotations of tetrahedron j (permutations of the parity asked for) that
\* show a canonical configuration in cube case i, as positions in the order
\* the search visits the permutations.
CanonicalRotations(i, j) ==
    LET perms == LexPerms(Range(tetrahedronIndices[j]))
    IN  {n \in 1..Len(perms) :
            /\ permutationParity(perms[n])
                  = Xor(permutationParity(tetrahedronIndices[j]), FlipOf(i, j))
            /\ TetMask(i, FlipOf(i, j), perms[n]) \in {0, 1, 3}}

\* The first of them, as a permutation of the vertices.
FirstRotation(i, j) ==
    LexPerms(Range(tetrahedronIndices[j]))[Min(CanonicalRotations(i, j))]

\* Triangles of a tetrahedron with the given number of vertices outside.
TrianglesFor(outside) ==
    IF outside \in {0, 4} THEN 0 ELSE IF outside \in {1, 3} THEN 1 ELSE 2

\* C27: for every cube case and each of the six tetrahedra the permutation
\* search finds a rotation in canonical position, and what it emits is what
\* the first such rotation gives: no triangle when 0 or 4 vertices of the
\* tetrahedron are outside, one when 1 or 3 are, two when 2 are; the index
\* count of the case is 3 times the sum of these numbers.
C27_SearchFindsCanonical ==
    tableCase > 0 =>
        /\ \A j \in 1..NUM_TETRAHEDRA :
              /\ CanonicalRotations(LastCase, j) # {}
              /\ LET first == FirstRotation(LastCase, j)
                 IN  EntryOf(LastCase).tets[j]
                         = EmitTriangles(first,
                               TetMask(LastCase, FlipOf(LastCase, j), first))
              /\ Len(EntryOf(LastCase).tets[j])
                    = 3 * TrianglesFor(TetOutside(LastCase,
                                                  tetrahedronIndices[j]))
        /\ CountOf(EntryOf(LastCase).rows)[2]
              = 3 * SumSeq([j \in 1..NUM_TETRAHEDRA |->
                       TrianglesFor(TetOutside(LastCase,
                                               tetrahedronIndices[j]))])

\* A case with tetrahedra of one, two and three vertices outside.
C27_Witness ==
    /\ tableCase > 0
    /\ \A k \in 1..3 : \E j \in 1..NUM_TETRAHEDRA :
          /\ TetOutside(LastCase, tetrahedronIndices[j]) = k
          /\ Len(EntryOf(LastCase).tets[j]) = 3 * TrianglesFor(k)

\* start[i] and count[i] of the tables (i from 0).
StartOf(i) == hStartTable[i + 1]

CountStored(i) ==
    StoredCount(<<UShort(hVertexTableSize(SubSeq(hTables, 1, i))),
                  UShort(hIndexTableSize(SubSeq(hTables, 1, i)))>>,
                hVertexTableSize(SubSeq(hTables, 1, i + 1)),
                hIndexTableSize(SubSeq(hTables, 1, i + 1)))

\* The tables agree on case i: the count stored in eight bits is the number
\* of rows the case has, the start entries of 16 bits advance by it, and the
\* indices of the case name vertices of the case.
CaseConsistent(i) ==
    /\ CountStored(i) = CountOf(EntryOf(i).rows)
    /\ i + 2 <= Len(hStartTable) =>
          /\ StartOf(i + 1)[1] = StartOf(i)[1] + CountStored(i)[1]
          /\ StartOf(i + 1)[2] = StartOf(i)[2] + CountStored(i)[2]
    /\ \A n \in 1..Len(EntryOf(i).rows.indices) :
          /\ 0 <= EntryOf(i).rows.indices[n]
          /\ EntryOf(i).rows.indices[n] < CountStored(i)[1]

\* The rows of case i are found in the data table and the key table where
\* the start table says.
CaseLookup(i, data, keys) ==
    /\ \A k \in 1..CountStored(i)[1] :
          /\ data[StartOf(i)[1] + k] = EntryOf(i).rows.vertices[k]
          /\ keys[StartOf(i)[1] + k] = EntryOf(i).rows.keys[k]
    /\ \A k \in 1..CountStored(i)[2] :
          data[StartOf(i)[2] + k] = EntryOf(i).rows.indices[k]

\* C28: the generated tables are mutually consistent.  While the loop runs,
\* the case just finished has its count stored without truncation, indices
\* below its vertex count, and start[i] + count[i] = start[i + 1] for the
\* entries made so far.  When makeTables is over this holds for all i in
\* [0, 256), start[0].v = 0, start[0].i = start[256].v, the data table has
\* start[256].i elements, the key table start[256].v rows, and the rows of
\* each case sit where start says; no value is truncated by its 8-bit or
\* 16-bit field.
C28_TablesConsistent ==
    /\ (pc = "tables" /\ tableCase > 0) =>
          /\ CaseConsistent(LastCase)
          /\ StartOf(LastCase) =
                <<hVertexTableSize(SubSeq(hTables, 1, LastCase)),
                  hIndexTableSize(SubSeq(hTables, 1, LastCase))>>
    /\ pc = "tabled" =>
          /\ Len(hStartTable) = NUM_CUBES + 1
          /\ \A i \in 0..(NUM_CUBES - 1) : CaseConsistent(i)
          /\ StartOf(0)[1] = 0
          /\ StartOf(0)[2] = StartOf(NUM_CUBES)[1]
          /\ StartOf(NUM_CUBES)[1] = hVertexTableSize(hTables)
          /\ StartOf(NUM_CUBES)[2]
                = hVertexTableSize(hTables) + hIndexTableSize(hTables)
          /\ Len(DataTable(hTables)) = StartOf(NUM_CUBES)[2]
          /\ Len(KeyTable(hTables)) = StartOf(NUM_CUBES)[1]
          /\ LET data == DataTable(hTables)
                 keys == KeyTable(hTables)
             IN  \A i \in 0..(NUM_CUBES - 1) : CaseLookup(i, data, keys)

\* The tables are complete and their totals need more than eight bits.
C28_Witness ==
    /\ pc = "tabled"
    /\ Len(hStartTable) = NUM_CUBES + 1
    /\ StartOf(NUM_CUBES)[1] > Pow2(8)
    /\ StartOf(NUM_CUBES)[2] > StartOf(NUM_CUBES)[1]
    /\ StartOf(NUM_CUBES)[2] < Pow2(16)

\* C29: in a call of generate with depth D the input functor is called for
\* z = 0, 1, 2, ... in increasing order, never more than D times, and exactly
\* D times when the call has returned.  From the first layer on, the first
\* slice image holds the slice the functor produced for z - 1 and the second
\* the slice it produced for z, z being the last slice asked for: the layer
\* is compacted from these two, and they are the two in place while it is
\* counted and generated.
C29_InputOrderAndSlices ==
    Accepted =>
        /\ inputCalls = [n \in 1..Len(inputCalls) |-> n - 1]
        /\ Len(sliceLog) = Len(inputCalls)
        /\ Len(inputCalls) <= size[3]
        /\ pc = "done" => Len(inputCalls) = size[3]
        /\ Len(inputCalls) >= 2 =>
              /\ images = <<sliceLog[Len(sliceLog) - 1], Last(sliceLog)>>
              /\ Last(compactedLog)
                    = Len(generateCells(sliceLog[Len(sliceLog) - 1],
                                        Last(sliceLog), size[1], size[2]))
        /\ pc \in {"counted", "generate"} =>
              /\ Last(inputCalls) = z
              /\ images = <<sliceLog[z], sliceLog[z + 1]>>
              /\ cells = generateCells(sliceLog[z], sliceLog[z + 1],
                                       size[1], size[2])

\* The second layer of a call of depth 3 is about to be generated, and the
\* three slices differ from one another.
C29_Witness ==
    /\ pc \in {"counted", "generate"}
    /\ size[3] = 3
    /\ z = 2
    /\ inputCalls = <<0, 1, 2>>
    /\ Cardinality(Range(sliceLog)) = 3

\* The vertex lies in the slab of cells of loop iteration zz (between the
\* sample planes zz - 1 and zz).
InLayer(v, zz) ==
    /\ zz - 1 <= v.p[3] /\ v.p[3] <= zz
    /\ zz - 1 <= v.q[3] /\ v.q[3] <= zz

\* C30: while the loop runs, the layers generated and not yet shipped fill
\* the buffers up to offsets = (V, I); every index of such a layer is below
\* V and names a vertex slot the same layer wrote, holding a vertex of that
\* layer: so at
\* every ship-out with sizes (V, I) the I indices are below V and name
\* vertices of layers shipped with them, and an index written after a
\* ship-out (offsets back at 0) never names a vertex of a layer shipped
\* before.
C30_IndicesNameUnshipped ==
    /\ pc \in {"loop", "counted", "generate"} =>
          SumCounts(accumulated) = offsets
    /\ \A n \in 1..Len(accumulated) :
          \A j \in accumulated[n].offsets[2]
                  ..(accumulated[n].offsets[2] + accumulated[n].counts[2] - 1) :
              /\ indices[j] < offsets[1]
              /\ accumulated[n].offsets[1] <= indices[j]
              /\ indices[j] < accumulated[n].offsets[1]
                                 + accumulated[n].counts[1]
              /\ unweldedVertices[indices[j]].orig = indices[j]
              /\ InLayer(unweldedVertices[indices[j]], accumulated[n].z)
    /\ Len(outputs) >= 1 =>
          \A j \in 0..(Last(outputs).sizes[2] - 1) :
              /\ Last(outputs).unweldedIndices[j] < Last(outputs).sizes[1]
              /\ \E zz \in Range(Last(outputs).layers) :
                    InLayer(Last(outputs).unsortedVertices
                                [Last(outputs).unweldedIndices[j]], zz)

\* A second ship-out, of a layer generated at offset 0 after the first.
C30_Witness ==
    /\ Len(outputs) = 2
    /\ outputs[2].sizes[2] > 0
    /\ outputs[1].layers = <<1>>
    /\ outputs[2].layers = <<2>>

RECURSIVE ShippedLayersFrom(_)
\* The layers of the ship-outs k.. of the call, in the order of the calls.
ShippedLayersFrom(k) ==
    IF k > Len(outputs) THEN <<>>
    ELSE outputs[k].layers \o ShippedLayersFrom(k + 1)

\* The layers found nonempty so far, in increasing z.
NonemptyLayers == SetToSortedSeq({n \in 1..Len(nonempty) : nonempty[n]})

\* The counts (dV, dI) of layer zz, computed again from the two slices the
\* input functor produced for it.
LayerCounts(zz) ==
    LET layerCells == generateCells(sliceLog[zz], sliceLog[zz + 1],
                                    size[1], size[2])
    IN  countElements(layerCells)[Len(layerCells) + 1]

\* Sum of component c of the counts of the nonempty layers.
TotalCounts(c) ==
    SumSeq([n \in 1..Len(NonemptyLayers) |-> LayerCounts(NonemptyLayers[n])[c]])

\* Sum of component c of the sizes passed to the ship-outs.
ShippedSizes(c) == SumSeq([k \in 1..Len(outputs) |-> outputs[k].sizes[c]])

\* C33: over one generate call every nonempty layer is included in exactly
\* one ship-out: the ship-outs cover disjoint, consecutive runs of layers in
\* increasing z (with the layers accumulated and not yet shipped following
\* them), the zMax values of successive ship-outs are strictly increasing,
\* and the sizes (V, I) of the ship-outs add up to the per-layer counts
\* (dV, dI) of the layers they cover, so that at the end of the call the
\* delivered triangle counts add up to the total dI / 3 over the depth - 1
\* layers.
C33_LayersShippedOnce ==
    (Accepted /\ pc \in {"loop", "finish", "done"}) =>
        /\ ShippedLayersFrom(1) \o AccumulatedLayers = NonemptyLayers
        /\ \A k \in 1..Len(outputs) : outputs[k].layers # <<>>
        /\ \A k \in 1..(Len(outputs) - 1) :
              outputs[k].zMax < outputs[k + 1].zMax
        /\ \A k \in 1..Len(outputs) : Last(outputs[k].layers) <= outputs[k].zMax
        /\ \A c \in 1..2 :
              ShippedSizes(c) + SumCounts(accumulated)[c] = TotalCounts(c)
        /\ pc = "done" =>
              /\ Len(nonempty) = size[3] - 1
              /\ accumulated = <<>>
              /\ ShippedSizes(1) = TotalCounts(1)
              /\ SumSeq([k \in 1..Len(outputs) |-> outputs[k].numTriangles])
                     = TotalCounts(2) \div 3
              /\ TotalCounts(2) % 3 = 0

C33_Witness ==
    /\ pc = "done"
    /\ thrown = "none"
    /\ size[3] = 3
    /\ Len(outputs) = 2
    /\ outputs[1].layers = <<1>>
    /\ outputs[2].layers = <<2>>

\* C34: under the preconditions of generate the output functor is never
\* invoked with an empty mesh: the two offsets are always both zero or both
\* nonzero, a ship-out inside the loop happens only with offsets.V > 0 and
\* offsets.I > 0, the ship-out after the loop (taken on offsets.V > 0) has
\* offsets.I > 0 as well, and every mesh delivered has numVertices >= 1 and
\* numTriangles >= 1.
C34_NoEmptyShipOut ==
    Accepted =>
        /\ (offsets[1] = 0) <=> (offsets[2] = 0)
        /\ (pc = "counted" /\ Overflow(offsets, counts)) =>
              offsets[1] > 0 /\ offsets[2] > 0
        /\ (pc = "loop" /\ ~MoreLayers(z, size[3]) /\ offsets[1] = 0) =>
              accumulated = <<>>
        /\ \A k \in 1..Len(outputs) :
              /\ outputs[k].sizes[1] > 0
              /\ outputs[k].sizes[2] > 0
              /\ outputs[k].numVertices >= 1
              /\ outputs[k].numTriangles >= 1

C34_Witness ==
    /\ pc = "done"
    /\ thrown = "none"
    /\ Len(outputs) = 1
    /\ outputs[1].layers = <<1, 2>>
    /\ Len(nonempty) = 2

\* resourceUsage has been called and has returned or thrown.
UsageCalled == usage # NoUsage \/ usageThrown # "none"

\* C35, as stated: resourceUsage throws std::invalid_argument for exactly the
\* (maxWidth, maxHeight) pairs the constructor rejects (a dimension outside
\* [2, MAX_DIMENSION]), and so never computes sizes from maxWidth - 1 or
\* maxHeight - 1 wrapped around for a dimension of 0.
C35_AsStated ==
    UsageCalled =>
        /\ (usageThrown = "invalid_argument") <=> (pc = "thrown")
        /\ usage # NoUsage =>
              \A n \in DOMAIN usage.calls :
                  usage.calls[n].bytes
                      <= MAX_DIMENSION * MAX_DIMENSION * MAX_CELL_INDICES
                             * SizeOf.cl_float4

\* The edges of the decomposition with the end points v0 and v1.
EdgesBetween(v0, v1) ==
    {e \in 0..(NUM_EDGES - 1) : {Edge(e)[1], Edge(e)[2]} = {v0, v1}}

\* The calls of findEdgeByVertexIds for tetrahedron j of cube case i.
EdgeCalls(i, j) ==
    LET first == FirstRotation(i, j)
    IN  EmitPairs(first, TetMask(i, FlipOf(i, j), first))

\* C39: during makeTables, for every cube case, findEdgeByVertexIds is only
\* called with a pair of cube vertices that is one of the 19 edges of the
\* decomposition, so it never reaches its trailing assert(false); its result
\* does not depend on the order of its two arguments and is the one edge with
\* those end points, and that is the edge number stored in the triangle list.
C39_EdgeLookupTotal ==
    tableCase > 0 =>
        \A j \in 1..NUM_TETRAHEDRA :
            LET calls == EdgeCalls(LastCase, j)
            IN  /\ Len(EntryOf(LastCase).tets[j]) = Len(calls)
                /\ \A n \in 1..Len(calls) :
                      LET v0 == calls[n][1]
                          v1 == calls[n][2]
                          e == findEdgeByVertexIds(v0, v1)
                      IN  /\ e # NoEdge
                          /\ e \in 0..(NUM_EDGES - 1)
                          /\ EdgesBetween(v0, v1) = {e}
                          /\ findEdgeByVertexIds(v1, v0) = e
                          /\ EntryOf(LastCase).tets[j][n] = e

\* A case in which a tetrahedron makes six calls, one of them with the larger
\* vertex first.
C39_Witness ==
    /\ tableCase > 0
    /\ \E j \in 1..NUM_TETRAHEDRA :
          LET calls == EdgeCalls(LastCase, j)
          IN  /\ Len(calls) = 6
              /\ \E n \in 1..Len(calls) : calls[n][1] > calls[n][2]

\* C36, as stated: readVertices never reads outside the vertex data: for
\* every (first, count), including those for which first + count wraps around
\* in size_type, it either throws std::out_of_range without writing any output
\* element, or reads only vertices with index in [first, first + count) that
\* lie in [0, vertexCount).
C36_AsStated ==
    /\ readPc = "out_of_range" => (readOut = 0 /\ vertexReads = <<>>)
    /\ \A n \in 1..Len(vertexReads) :
          /\ vertexReads[n] >= readArgs[1]
          /\ vertexReads[n] < readArgs[1] + readArgs[2]
          /\ vertexReads[n] \in 0..(vertexCount - 1)

\* The local blobFile of the rank that wrote a file, as a holder of an owner
\* flag.
LocalOwner == 0 - 1

\* The holders of an owner flag for the blob file of rank f: LocalOwner for
\* the blobFile of rank f itself, and every rank with an owning entry in its
\* blobFiles.
Owners(f) ==
    (IF blobFile[f].path = f /\ blobFile[f].owner THEN {LocalOwner} ELSE {})
        \cup {r \in Ranks : \E n \in 1..Len(blobFiles[r]) :
                 blobFiles[r][n].path = f /\ blobFiles[r][n].owner}

\* Every rank has returned from computeBlobs.
AllRanksDone == comm.size > 0 /\ \A r \in Ranks : rankPc[r] = "done"

\* C32: in computeBlobs the ownership of each rank's blob file passes to the
\* root without a gap: the root's blobFiles entry is an owner before the
\* producing rank clears its own owner flag, so a blob file that has been
\* written has at least one owner at every point; when every rank has
\* returned, each rank holds the same list of 'size' blob files (file i in
\* position i, with the blob count rank i wrote) and the same nSplats (the
\* sum over the ranks), only the root's entries are owners and no rank's
\* local blobFile is.
C32_OwnershipHandedOver ==
    /\ \A f \in Ranks :
          rankPc[f] # "range" =>
              /\ Owners(f) # {}
              /\ ~blobFile[f].owner => comm.root \in Owners(f)
              /\ Owners(f) \subseteq {LocalOwner, comm.root}
    /\ AllRanksDone =>
          \A r \in Ranks :
              /\ Len(blobFiles[r]) = comm.size
              /\ \A i \in Ranks :
                    /\ blobFiles[r][i + 1].path = i
                    /\ blobFiles[r][i + 1].nBlobs = blobFile[i].nBlobs
                    /\ blobFiles[r][i + 1].owner = (r = comm.root)
              /\ blobFiles[r] = [n \in 1..comm.size |->
                                   [blobFiles[0][n] EXCEPT
                                       !.owner = (r = comm.root)]]
              /\ nSplats[r] = SumOver(collective.reduce, 0, comm.size - 1)
              /\ nSplats[r] = nSplats[0]
              /\ ~blobFile[r].owner

\* Three ranks with a root that is neither the first nor the last have
\* returned, with files of different blob counts.
C32_Witness ==
    /\ AllRanksDone
    /\ comm = [size |-> 3, root |-> 1]
    /\ blobFile[0].nBlobs # blobFile[2].nBlobs
    /\ nSplats[2] = 2

\* The DeviceWorkItems in the fine queue or held by a device thread.
FineInFlight ==
    (Range(workQueueFine) \ {NullDeviceItem})
        \cup {worker[w].item : w \in {v \in DeviceThreads :
                                         worker[v].pc = "generate"}}

\* The main thread is between two passes or past the last one.
PassEnded == pass > 0 /\ mainPc \in {"pass", "done"}

\* What holds of run2 at every point of a pass.
ShutdownInOrder ==
    /\ runAssertOk
    /\ (\/ NullDeviceItem \in Range(workQueueFine)
        \/ \E w \in DeviceThreads : sentinels.device[w] > 0)
          => \A b \in BucketThreads : block[b].pc = "exit"
    /\ \A item \in BagToSet(fineProcessed) : CopiesIn(item, fineProcessed) = 1
    /\ BagToSet(fineProcessed) \cap FineInFlight = {}
    /\ BagToSet(fineProcessed) \cup FineInFlight = finePushed
    /\ mainPc # "pass" =>
          /\ \A b \in BucketThreads :
                sentinels.bucket[b] = IF block[b].pc = "exit" THEN 1 ELSE 0
          /\ \A w \in DeviceThreads :
                sentinels.device[w] = IF worker[w].pc = "exit" THEN 1 ELSE 0
    /\ \A w \in DeviceThreads :
          worker[w].pc = "exit" => worker[w].item = NullDeviceItem
    /\ PassEnded =>
          /\ workQueueCoarse = <<>>
          /\ workQueueFine = <<>>
          /\ BagToSet(fineProcessed) = finePushed
          /\ \A b \in BucketThreads :
                block[b].pc = "exit" /\ sentinels.bucket[b] = 1
          /\ \A w \in DeviceThreads :
                worker[w].pc = "exit" /\ sentinels.device[w] = 1

\* C31: in run2, with any numbers of bucket threads and device threads, the
\* shutdown order loses no work: the null items for the device threads are
\* pushed only after every bucket thread has returned, every DeviceWorkItem
\* pushed to the fine queue is popped and processed exactly once by a device
\* thread before that thread returns, each thread pops exactly one null item,
\* both queues are empty at the end of each pass (the two asserts hold), and
\* every pass ends with all threads joined, so that run2 gets past the loop
\* over the passes.
C31_ShutdownLosesNoWork == []ShutdownInOrder /\ <>(mainPc = "done")

\* run2 has ended with two bucket threads and two device threads, after a
\* pass in which a DeviceWorkItem was pushed and processed.
C31_Witness ==
    /\ mainPc = "done"
    /\ threads.bucket = 2
    /\ threads.device = 2
    /\ finePushed = {<<1, 1>>}
    /\ BagToSet(fineProcessed) = finePushed

\* The ids of the splats in first..last-1 that exist in the files, in
\* increasing order.
ExistingIds(first, last) ==
    LET Exists(id) == /\ FileOf(id) < Len(files)
                      /\ OffsetOf(id) < FileSize(FileOf(id))
    IN  SelectSeq([k \in 1..(last - first) |-> first + k - 1], Exists)

\* The Item buffers in the pool, in the output queue and held by the reader
\* or by the consumer.
InCirculation ==
    Len(pool) + Len(SelectSeq(outQueue, LAMBDA item : item # NullItem))
    + (IF readerThread.item # NullItem THEN 1 ELSE 0)
    + (IF buffer # NullItem THEN 1 ELSE 0)
    + (IF drained # NullItem THEN 1 ELSE 0)

IsPrefix(s, t) == Len(s) <= Len(t) /\ SubSeq(t, 1, Len(s)) = s

\* The reader is about to push the completion marker of a request, or has
\* pushed it and not yet popped the next request.
MarkerDue ==
    \/ readerThread.pc = "done"
    \/ readerThread.pc = "pop" /\ progress.markers > 0

StreamSafe ==
    /\ InCirculation = PoolItems
    /\ IsPrefix(pushedIds, ExistingIds(req[1], req[2]))
    /\ MarkerDue => pushedIds = ExistingIds(req[1], req[2])

\* C37: for every request of a MySplatStream the reader thread pushes
\* buffers that cover exactly the requested splat ids that exist in the
\* files, in increasing order, and then the null completion marker; two Item
\* buffers are in circulation at all times; and no interleaving of the
\* reader and the consumer deadlocks: every request gets its marker, and the
\* destructor returns with the reader thread ended.
C37_ReaderServesAndStops ==
    /\ []StreamSafe
    /\ \A n \in 1..(MaxResets + 1) :
         (progress.requests = n) ~> (progress.markers >= n)
    /\ <>(streamPc = "destroyed" /\ readerThread.pc = "exit")

\* A second request, made by reset, has been served with more buffers than
\* there are items, from two files, and its marker has been pushed.
C37_Witness ==
    /\ progress.markers = 2
    /\ readerThread.pc = "pop"
    /\ Len(pushedIds) > PoolItems
    /\ FileOf(pushedIds[1]) # FileOf(Last(pushedIds))

\* The clump of a chunk that emitted the external vertex of this slot
\* (counted from 0).
SlotOwner(ccs, slot) ==
    Min({j \in 1..Len(ccs) :
           SumOver([i \in 1..Len(ccs) |-> ccs[i].numExternalVertices], 1, j) > slot})

\* The external indices of the triangles of the kept clumps, after write, as
\* <<chunk, clump, slot>>.
KeptExternalUses ==
    UNION {UNION {{<<i, j, IndexNot(chunks[i].clumps[j].triangles[p[1]][p[2]])>> :
                     p \in {q \in (1..Len(chunks[i].clumps[j].triangles)) \X (1..3) :
                              IndexNot(chunks[i].clumps[j].triangles[q[1]][q[2]])
                                < Len(written[i].externalRemap)}} :
                  j \in {c \in 1..Len(chunks[i].clumps) :
                           Kept(chunks[i].clumps[c],
                                written[i].thresholdVertices)}} :
           i \in DOMAIN chunks}

\* C38: after any calls of add and write, no assert t[k] != badIndex of
\* write fails: an external index of a triangle of a kept clump is the slot
\* of a vertex that a kept clump emitted, as the clumps of a chunk that
\* share a vertex key have one root.
C38_RemapNeverBad ==
    /\ remapOk
    /\ (mesherPc = "written") =>
         (\A u \in KeptExternalUses :
            Kept(chunks[u[1]].clumps[SlotOwner(chunks[u[1]].clumps, u[3])],
                 written[u[1]].thresholdVertices))

\* write has run on a chunk with a pruned clump that emitted an external
\* vertex, and with a triangle of a kept clump that uses an external vertex
\* another clump emitted.
C38_Witness ==
    /\ mesherPc = "written"
    /\ \E u \in KeptExternalUses :
         /\ SlotOwner(chunks[u[1]].clumps, u[3]) # u[2]
         /\ badIndex \in Range(written[u[1]].externalRemap)

====
